---- MODULE Spec2Model ----
(***************************************************************************)
(* Token transformation and multi-brand resolution engine of               *)
(* figma-token-sync: path codec (flattenTokens / setNestedValue), alias    *)
(* resolver (resolveTokenReferences), deepMerge / deepClone and the brand  *)
(* merge functions, and the structure classifier.                          *)
(*                                                                         *)
(* JavaScript values are tagged records [t, v].  A string is a sequence of *)
(* atoms (an atom is one symbol of the alphabet: a separator such as "/",  *)
(* ".", "{", "}" or a word without separators), so that joining and        *)
(* splitting paths is computed and not assumed.  An object is a function   *)
(* from keys (strings) to values; objects whose identity matters live in   *)
(* a heap of addresses.                                                    *)
(***************************************************************************)
EXTENDS Integers, Sequences, FiniteSets, TLC

VARIABLES pc, tokens, flat, idx, rebuilt, resolved, resolved2,
          heap, files, mergedAB, mergedBA, foundation, brandSets, touched,
          tokenFiles, brandFolderPattern, structure,
          oldTokens, newTokens, changes,
          figma, config, fileContents, processed, result, allWarnings, pullResult,
          pushResult,
          declaredType, rawValue, inferred,
          previous, call,
          storage, sync, save, posted, ui,
          repo, pr

codecVars == <<flat, idx, rebuilt>>
resolveVars == <<resolved, resolved2>>
mergeVars == <<heap, files, mergedAB, mergedBA, foundation, brandSets, touched>>
classifyVars == <<tokenFiles, brandFolderPattern, structure>>
diffVars == <<oldTokens, newTokens, changes>>
importVars ==
  <<figma, config, fileContents, processed, result, allWarnings, pullResult, pushResult>>
inferVars == <<declaredType, rawValue, inferred>>
callVars == <<previous, call>>
messageVars == <<storage, sync, save, posted, ui>>
prVars == <<repo, pr>>
pluginVars == <<inferVars, callVars, messageVars, prVars>>
syncVars == <<diffVars, importVars, pluginVars>>

vars == <<pc, tokens, codecVars, resolveVars, mergeVars, classifyVars, syncVars>>

----------------------------------------------------------------------------
(* JavaScript values                                                       *)

Str(s) == [t |-> "str", v |-> s]
Num(n) == [t |-> "num", v |-> n]
Bool(b) == [t |-> "bool", v |-> b]
Obj(f) == [t |-> "obj", v |-> f]
Undefined == [t |-> "undef", v |-> 0]
Thrown(e) == [t |-> "throw", v |-> e]

W(a) == <<a>>
EmptyObj == Obj(<<>>)
None == Str(<<>>)

IsObj(x) == x.t = "obj"
IsThrown(x) == x.t = "throw"

Falsy(x) ==
  \/ x.t = "undef"
  \/ x.t = "str" /\ x.v = <<>>
  \/ x.t = "num" /\ x.v = 0
  \/ x.t = "bool" /\ x.v = FALSE

Has(o, k) == k \in DOMAIN o.v
Get(o, k) == IF Has(o, k) THEN o.v[k] ELSE Undefined
Put(f, k, x) == (k :> x) @@ f

RECURSIVE KeysInOrder(_)
KeysInOrder(S) ==
  IF S = {} THEN <<>>
  ELSE LET k == CHOOSE x \in S : TRUE IN <<k>> \o KeysInOrder(S \ {k})

Entries(o) == KeysInOrder(DOMAIN o.v)

HasSep(s, sep) == \E i \in 1..Len(s) : s[i] = sep
FirstSep(s, sep) == CHOOSE i \in 1..Len(s) : s[i] = sep /\ \A j \in 1..(i-1) : s[j] # sep

RECURSIVE Split(_, _)
Split(s, sep) ==
  IF ~HasSep(s, sep) THEN <<s>>
  ELSE LET i == FirstSep(s, sep)
       IN <<SubSeq(s, 1, i-1)>> \o Split(SubSeq(s, i+1, Len(s)), sep)

kValue == W("value")
kType == W("type")
kComment == W("comment")

----------------------------------------------------------------------------
(* Path codec                                                              *)

isToken(x) == ~Falsy(x) /\ IsObj(x) /\ Has(x, kValue)

FlatToken(p, x) ==
  [path |-> p, value |-> Get(x, kValue), type |-> Get(x, kType), comment |-> Get(x, kComment)]

RECURSIVE flattenFrom(_, _, _)
flattenTokens(toks, prefix) == flattenFrom(toks, prefix, Entries(toks))
flattenFrom(toks, prefix, keys) ==
  IF keys = <<>> THEN <<>>
  ELSE LET key == Head(keys)
           value == toks.v[key]
           path == IF prefix # <<>> THEN prefix \o <<"/">> \o key ELSE key
           here == IF isToken(value) THEN <<FlatToken(path, value)>>
                   ELSE flattenFrom(value, path, Entries(value))
       IN here \o flattenFrom(toks, prefix, Tail(keys))

RECURSIVE setNestedParts(_, _, _)
setNestedParts(obj, parts, value) ==
  IF Len(parts) = 1 THEN Obj(Put(obj.v, parts[1], value))
  ELSE LET part == parts[1]
           cur == Get(obj, part)
           next == IF Falsy(cur) THEN EmptyObj ELSE cur
       IN IF ~IsObj(next) THEN Thrown("TypeError")
          ELSE LET r == setNestedParts(next, Tail(parts), value)
               IN IF IsThrown(r) THEN r ELSE Obj(Put(obj.v, part, r))

setNestedValue_unsplit(obj, path, value) == setNestedParts(obj, <<path>>, value)

setNestedValue(obj, path, value) == setNestedParts(obj, Split(path, "/"), value)

TokenOf(rec) ==
  Obj([k \in {kValue} \cup (IF rec.type.t = "undef" THEN {} ELSE {kType})
                      \cup (IF rec.comment.t = "undef" THEN {} ELSE {kComment})
        |-> IF k = kValue THEN rec.value ELSE IF k = kType THEN rec.type ELSE rec.comment])

----------------------------------------------------------------------------
(* Token trees the inputs are drawn from: a tree is built from a set of    *)
(* <<key path, node>> entries, with the node a Leaf or an empty Group.     *)

MaxEntries == 2
MaxPathLen == 2

RECURSIVE PathsUpTo(_, _)
PathsUpTo(K, n) ==
  IF n = 0 THEN {}
  ELSE LET shorter == PathsUpTo(K, n - 1)
       IN {<<k>> : k \in K} \cup shorter \cup {<<k>> \o p : k \in K, p \in shorter}

RECURSIVE SubsetsUpTo(_, _)
SubsetsUpTo(S, n) ==
  IF n = 0 THEN {{}}
  ELSE LET smaller == SubsetsUpTo(S, n - 1)
       IN smaller \cup {E \cup {x} : E \in smaller, x \in S}

DistinctPaths(E) == \A e1, e2 \in E : e1[1] = e2[1] => e1 = e2

RECURSIVE TreeOf(_)
TreeOf(E) ==
  LET heads == {e[1][1] : e \in E}
      hereOf(k) == {e \in E : e[1] = <<k>>}
      belowOf(k) == {<<Tail(e[1]), e[2]>> : e \in {x \in E : Len(x[1]) > 1 /\ x[1][1] = k}}
      nodeOf(k) ==
        LET own == IF hereOf(k) = {} THEN <<>> ELSE (CHOOSE e \in hereOf(k) : TRUE)[2].v
            kids == IF belowOf(k) = {} THEN <<>> ELSE TreeOf(belowOf(k)).v
        IN Obj(own @@ kids)
  IN Obj([k \in heads |-> nodeOf(k)])

TreesFrom(paths, nodes, n) ==
  {TreeOf(E) : E \in {X \in SubsetsUpTo(paths \X nodes, n) : DistinctPaths(X)}}

TreesOver(K, nodes, n, len) == TreesFrom(PathsUpTo(K, len), nodes, n)

RECURSIVE NoAmbiguity(_)
NoAmbiguity(o) ==
  \A k \in DOMAIN o.v :
    LET c == o.v[k]
    IN IsObj(c) /\ IF Has(c, kValue) THEN \A a \in DOMAIN c.v : ~IsObj(c.v[a])
                    ELSE NoAmbiguity(c)

RECURSIVE NoEmptyGroup(_)
NoEmptyGroup(o) ==
  \A k \in DOMAIN o.v :
    LET c == o.v[k]
    IN IsObj(c) /\ ~Has(c, kValue) => c.v # <<>> /\ NoEmptyGroup(c)

RECURSIVE GroupKeys(_)
GroupKeys(o) ==
  DOMAIN o.v \cup UNION {IF IsObj(o.v[k]) /\ ~Has(o.v[k], kValue) THEN GroupKeys(o.v[k]) ELSE {} : k \in DOMAIN o.v}

PlainKeys(o) == \A k \in GroupKeys(o) : k # <<>> /\ ~HasSep(k, "/")

----------------------------------------------------------------------------
(* Codec specification: flatten a tree, then rebuild it record by record.  *)

(* The key at the root is plain, holds a '/' or is empty; the keys below   *)
(* the root are plain.                                                     *)
CodecPlainKeys == {W("a"), W("b")}
CodecKeys == CodecPlainKeys \cup {<<"a", "/", "b">>, <<>>}
CodecPaths ==
  {<<k>> \o p : k \in CodecKeys, p \in {<<>>} \cup PathsUpTo(CodecPlainKeys, MaxPathLen - 1)}
CodecNodes ==
  { Obj((kValue :> Num(0)) @@ (kType :> Str(W("number")))),
    Obj((kValue :> Str(W("y"))) @@ (kType :> Str(W("string"))) @@ (kComment :> Str(W("note")))),
    EmptyObj }

CodecTrees == TreesFrom(CodecPaths, CodecNodes, MaxEntries)

CodecIdle == flat = <<>> /\ idx = 0 /\ rebuilt = EmptyObj
ResolveIdle == resolved = Undefined /\ resolved2 = Undefined
MergeIdle ==
  /\ heap = [o |-> <<>>, e |-> FALSE]
  /\ files = <<>>
  /\ mergedAB = 0
  /\ mergedBA = 0
  /\ foundation = 0
  /\ brandSets = <<>>
  /\ touched = <<>>
NoStructure == [brands |-> <<>>, globalFiles |-> <<>>, baseFiles |-> <<>>]
ClassifyIdle == tokenFiles = <<>> /\ brandFolderPattern = <<>> /\ structure = NoStructure
NoChanges == [added |-> <<>>, modified |-> <<>>, removed |-> <<>>]
DiffIdle == oldTokens = EmptyObj /\ newTokens = EmptyObj /\ changes = NoChanges
ImportIdle ==
  /\ figma = [collections |-> <<>>]
  /\ config = [targetCollection |-> <<>>, targetMode |-> <<>>, modeStrategy |-> "auto"]
  /\ fileContents = <<>>
  /\ processed = <<>>
  /\ result = 0
  /\ allWarnings = <<>>
  /\ pullResult = [success |-> FALSE, message |-> "none"]
  /\ pushResult = [success |-> FALSE, files |-> <<>>]
InferIdle == declaredType = Undefined /\ rawValue = Undefined /\ inferred = ""
CallIdle == previous = [collections |-> <<>>] /\ call = <<>>
MessageIdle == storage = <<>> /\ sync = <<>> /\ save = <<>> /\ posted = <<>> /\ ui = <<>>
PrIdle == repo = <<>> /\ pr = <<>>
CoreIdle == CodecIdle /\ ResolveIdle /\ MergeIdle /\ ClassifyIdle /\ DiffIdle
PluginIdle == InferIdle /\ CallIdle /\ MessageIdle /\ PrIdle
SyncIdle == DiffIdle /\ ImportIdle /\ PluginIdle

InitCodec ==
  /\ tokens \in CodecTrees
  /\ pc = "start"
  /\ CodecIdle
  /\ ResolveIdle
  /\ MergeIdle
  /\ ClassifyIdle
  /\ SyncIdle

FlattenTokens ==
  /\ pc = "start"
  /\ flat' = flattenTokens(tokens, <<>>)
  /\ idx' = 1
  /\ pc' = "flat"
  /\ UNCHANGED <<tokens, rebuilt, resolveVars, mergeVars, classifyVars, syncVars>>

SetNestedValue ==
  /\ pc = "flat"
  /\ idx <= Len(flat)
  /\ rebuilt' = setNestedValue(rebuilt, flat[idx].path, TokenOf(flat[idx]))
  /\ idx' = idx + 1
  /\ UNCHANGED <<pc, tokens, flat, resolveVars, mergeVars, classifyVars, syncVars>>

NextCodec == FlattenTokens \/ SetNestedValue

SpecCodec == InitCodec /\ [][NextCodec]_vars

Rebuilt == pc = "flat" /\ idx = Len(flat) + 1

----------------------------------------------------------------------------
(* Reference resolver                                                      *)

StackLimit == 12

IsReference(s) == Len(s) >= 3 /\ s[1] = "{" /\ s[Len(s)] = "}"
ReferencePath(s) == SubSeq(s, 2, Len(s) - 1)

NotFound == [t |-> "notfound", v |-> 0]

RECURSIVE lookupParts(_, _)
lookupParts(value, pathParts) ==
  IF pathParts = <<>> THEN value
  ELSE IF ~Falsy(value) /\ IsObj(value) /\ Has(value, Head(pathParts))
       THEN lookupParts(value.v[Head(pathParts)], Tail(pathParts))
       ELSE NotFound

RECURSIVE resolveAt(_, _, _)
RECURSIVE resolveEntries(_, _, _, _)
resolveEntries(toks, rootTokens, keys, depth) ==
  IF keys = <<>> THEN EmptyObj
  ELSE LET first == resolveAt(toks.v[Head(keys)], rootTokens, depth + 1)
       IN IF IsThrown(first) THEN first
          ELSE LET rest == resolveEntries(toks, rootTokens, Tail(keys), depth)
               IN IF IsThrown(rest) THEN rest ELSE Obj(Put(rest.v, Head(keys), first))

resolveAt_dropMissing(toks, rootTokens, depth) ==
  IF depth > StackLimit THEN Thrown("RangeError")
  ELSE IF toks.t = "str" THEN
    IF IsReference(toks.v) THEN
      LET value == lookupParts(rootTokens, Split(ReferencePath(toks.v), "."))
      IN IF value.t = "notfound" THEN Undefined ELSE resolveAt(value, rootTokens, depth + 1)
    ELSE toks
  ELSE IF IsObj(toks) THEN resolveEntries(toks, rootTokens, Entries(toks), depth)
  ELSE toks

resolveAt(toks, rootTokens, depth) ==
  IF depth > StackLimit THEN Thrown("RangeError")
  ELSE IF toks.t = "str" THEN
    IF IsReference(toks.v) THEN
      LET value == lookupParts(rootTokens, Split(ReferencePath(toks.v), "."))
      IN IF value.t = "notfound" THEN toks ELSE resolveAt(value, rootTokens, depth + 1)
    ELSE toks
  ELSE IF IsObj(toks) THEN resolveEntries(toks, rootTokens, Entries(toks), depth)
  ELSE toks

resolveTokenReferences(toks, originalTokens) ==
  resolveAt(toks, IF Falsy(originalTokens) THEN toks ELSE originalTokens, 1)

(* Resolver specification: resolve a tree against itself, then resolve the *)
(* result against itself.                                                  *)

ResolveMaxEntries == 3

Ref1(a) == Str(<<"{", a, "}">>)
Ref2(a, b) == Str(<<"{", a, ".", b, "}">>)
Ref3(a, b, c) == Str(<<"{", a, ".", b, ".", c, "}">>)
LeafWith(x) == Obj(kValue :> x)

(* Leaves sit at the root or one Group deep, under the keys a and b.       *)
ResolvePaths ==
  { <<W("a")>>, <<W("b")>>,
    <<W("a"), W("a")>>, <<W("a"), W("b")>>, <<W("b"), W("a")>>, <<W("b"), W("b")>> }
ResolveNodes ==
  { LeafWith(Str(W("x"))), LeafWith(Num(1)), LeafWith(Ref1("a")), LeafWith(Ref2("a", "b")),
    LeafWith(Ref2("b", "value")), LeafWith(Ref3("b", "value", "value")) }

ResolveTrees == TreesFrom(ResolvePaths, ResolveNodes, ResolveMaxEntries)

InitResolve ==
  /\ tokens \in ResolveTrees
  /\ pc = "start"
  /\ CodecIdle
  /\ ResolveIdle
  /\ MergeIdle
  /\ ClassifyIdle
  /\ SyncIdle

Resolve ==
  /\ pc = "start"
  /\ resolved' = resolveTokenReferences(tokens, Undefined)
  /\ pc' = "resolved"
  /\ UNCHANGED <<tokens, codecVars, resolved2, mergeVars, classifyVars, syncVars>>

ResolveAgain ==
  /\ pc = "resolved"
  /\ ~IsThrown(resolved)
  /\ resolved2' = resolveTokenReferences(resolved, resolved)
  /\ pc' = "resolved2"
  /\ UNCHANGED <<tokens, codecVars, resolved, mergeVars, classifyVars, syncVars>>

NextResolve == Resolve \/ ResolveAgain

SpecResolve == InitResolve /\ [][NextResolve]_vars

(* Leaves of a tree by key path, and the alias graph of a tree.            *)

RECURSIVE LeafPaths(_)
LeafPaths(o) ==
  UNION { IF ~IsObj(o.v[k]) THEN {}
          ELSE IF Has(o.v[k], kValue) THEN {<<k>>}
          ELSE {<<k>> \o p : p \in LeafPaths(o.v[k])} : k \in DOMAIN o.v }

RECURSIVE At(_, _)
At(o, p) == IF p = <<>> THEN o ELSE At(o.v[Head(p)], Tail(p))

ValueAt(o, p) == At(o, p).v[kValue]

IsAlias(x) == x.t = "str" /\ IsReference(x.v)
AliasParts(x) == Split(ReferencePath(x.v), ".")

RECURSIVE StringsIn(_)
StringsIn(x) ==
  IF x.t = "str" THEN {x}
  ELSE IF IsObj(x) THEN UNION {StringsIn(x.v[k]) : k \in DOMAIN x.v}
  ELSE {}

AliasesIn(x) == {s \in StringsIn(x) : IsAlias(s)}

AliasSucc(root, s) ==
  LET target == lookupParts(root, AliasParts(s))
  IN IF target.t = "notfound" THEN {} ELSE AliasesIn(target)

RECURSIVE AliasReach(_, _)
AliasReach(root, S) ==
  LET more == S \cup UNION {AliasSucc(root, s) : s \in S}
  IN IF more = S THEN S ELSE AliasReach(root, more)

Cyclic(root) == \E s \in AliasesIn(root) : s \in AliasReach(root, AliasSucc(root, s))

RECURSIVE LeadsToLeaf(_, _)
LeadsToLeaf(o, p) ==
  /\ p # <<>>
  /\ Has(o, Head(p))
  /\ IsObj(o.v[Head(p)])
  /\ IF Len(p) = 1 THEN Has(o.v[Head(p)], kValue)
     ELSE ~Has(o.v[Head(p)], kValue) /\ LeadsToLeaf(o.v[Head(p)], Tail(p))

PlainScalar(x) == x.t \in {"str", "num", "bool"} /\ ~IsAlias(x)

(* C2: a Leaf whose value is the alias "{p}", with p leading through       *)
(* Groups to a Leaf that holds a non-reference scalar v, has the value v   *)
(* in the resolved tree.                                                   *)
C2_AliasSubstitution ==
  (pc = "resolved" /\ ~IsThrown(resolved)) =>
    \A q \in LeafPaths(tokens) :
      LET x == ValueAt(tokens, q)
      IN (IsAlias(x) /\ LeadsToLeaf(tokens, AliasParts(x)) /\ PlainScalar(ValueAt(tokens, AliasParts(x))))
           => ValueAt(resolved, q) = ValueAt(tokens, AliasParts(x))

(* C3: resolving the resolved tree of an acyclic tree against itself       *)
(* changes nothing.                                                        *)
C3_IdempotentResolution ==
  (pc = "resolved2" /\ ~Cyclic(tokens)) => resolved2 = resolved

(* C4: resolution never exhausts the call stack, also when the aliases of  *)
(* the tree form a cycle.                                                  *)
C4_CycleSafety ==
  (pc = "resolved" /\ Cyclic(tokens)) => resolved # Thrown("RangeError")

----------------------------------------------------------------------------
(* Heap of objects: deepMerge mutates its target in place, so the trees it *)
(* works on are object graphs.  heap.o[a] is the object at address a, a    *)
(* function from keys to scalars or references; heap.e records a TypeError *)
(* raised by an assignment to a property of a primitive.                   *)

Ref(a) == [t |-> "ref", v |-> a]
IsRef(x) == x.t = "ref"
EmptyHeap == [o |-> <<>>, e |-> FALSE]

Alloc(H) == [H EXCEPT !.o = Append(@, <<>>)]
SetKey(H, a, k, x) == [H EXCEPT !.o[a] = Put(@, k, x)]
GetKey(H, a, k) == IF k \in DOMAIN H.o[a] THEN H.o[a][k] ELSE Undefined
KeysOf(H, a) == KeysInOrder(DOMAIN H.o[a])

RECURSIVE LoadInto(_, _, _, _)
LoadInto(H, a, tree, keys) ==
  IF keys = <<>> THEN H
  ELSE LET k == Head(keys)
           child == tree.v[k]
           H1 == IF IsObj(child)
                 THEN LET c == Len(H.o) + 1
                      IN SetKey(LoadInto(Alloc(H), c, child, Entries(child)), a, k, Ref(c))
                 ELSE SetKey(H, a, k, child)
       IN LoadInto(H1, a, tree, Tail(keys))

Load(H, tree) ==
  LET a == Len(H.o) + 1 IN [h |-> LoadInto(Alloc(H), a, tree, Entries(tree)), a |-> a]

RECURSIVE Read(_, _)
Read(H, a) ==
  Obj([k \in DOMAIN H.o[a] |-> IF IsRef(H.o[a][k]) THEN Read(H, H.o[a][k].v) ELSE H.o[a][k]])

RECURSIVE Reach(_, _)
Reach(H, a) ==
  {a} \cup UNION {IF IsRef(H.o[a][k]) THEN Reach(H, H.o[a][k].v) ELSE {} : k \in DOMAIN H.o[a]}

RECURSIVE deepMergeKeys(_, _, _, _)

deepMergeKeys_targetWins(H, target, source, keys) ==
  IF keys = <<>> \/ H.e THEN H
  ELSE LET key == Head(keys)
           sv == H.o[source][key]
           H1 == IF ~Falsy(sv) /\ IsRef(sv) THEN
                   LET fresh == Len(H.o) + 1
                       Hn == IF Falsy(GetKey(H, target, key))
                             THEN SetKey(Alloc(H), target, key, Ref(fresh)) ELSE H
                       tv == Hn.o[target][key]
                   IN IF IsRef(tv) THEN deepMergeKeys(Hn, tv.v, sv.v, KeysOf(Hn, sv.v))
                      ELSE IF DOMAIN Hn.o[sv.v] = {} THEN Hn ELSE [Hn EXCEPT !.e = TRUE]
                 ELSE IF key \in DOMAIN H.o[target] THEN H ELSE SetKey(H, target, key, sv)
       IN deepMergeKeys(H1, target, source, Tail(keys))

deepMergeKeys_shallow(H, target, source, keys) ==
  IF keys = <<>> \/ H.e THEN H
  ELSE LET key == Head(keys)
           sv == H.o[source][key]
           H1 == IF ~Falsy(sv) /\ IsRef(sv) THEN
                   LET fresh == Len(H.o) + 1
                       Hn == SetKey(Alloc(H), target, key, Ref(fresh))
                   IN deepMergeKeys(Hn, fresh, sv.v, KeysOf(Hn, sv.v))
                 ELSE SetKey(H, target, key, sv)
       IN deepMergeKeys(H1, target, source, Tail(keys))

deepMergeKeys(H, target, source, keys) ==
  IF keys = <<>> \/ H.e THEN H
  ELSE LET key == Head(keys)
           sv == H.o[source][key]
           H1 == IF ~Falsy(sv) /\ IsRef(sv) THEN
                   LET fresh == Len(H.o) + 1
                       Hn == IF Falsy(GetKey(H, target, key))
                             THEN SetKey(Alloc(H), target, key, Ref(fresh)) ELSE H
                       tv == Hn.o[target][key]
                   IN IF IsRef(tv) THEN deepMergeKeys(Hn, tv.v, sv.v, KeysOf(Hn, sv.v))
                      ELSE IF DOMAIN Hn.o[sv.v] = {} THEN Hn ELSE [Hn EXCEPT !.e = TRUE]
                 ELSE SetKey(H, target, key, sv)
       IN deepMergeKeys(H1, target, source, Tail(keys))

deepMerge(H, target, source) == deepMergeKeys(H, target, source, KeysOf(H, source))

deepClone_alias(H, a) == [h |-> H, a |-> a]

deepClone(H, a) == Load(H, Read(H, a))

(* Merge specification: two parsed trees A and B are merged into an empty  *)
(* tree, A then B and B then A.                                            *)

MergeMaxEntries == 2
MergeMaxPathLen == 2

MergeKeys == {W("x"), W("y")}
NodesA == {Obj((kValue :> Str(W("#ff0000"))) @@ (kType :> Str(W("color"))))}
NodesB == {Obj(kValue :> Num(0))}

TreesA == TreesOver(MergeKeys, NodesA, MergeMaxEntries, MergeMaxPathLen)
TreesB == TreesOver(MergeKeys, NodesB, MergeMaxEntries - 1, MergeMaxPathLen)

TokenFile(cat, brand, a) == [category |-> cat, brand |-> brand, tokens |-> a]

InitMerge ==
  /\ \E A \in TreesA, B \in TreesB :
       LET la == Load(EmptyHeap, A)
           lb == Load(la.h, B)
       IN /\ heap = lb.h
          /\ files = <<TokenFile("global", "", la.a), TokenFile("global", "", lb.a)>>
  /\ pc = "start"
  /\ tokens = EmptyObj
  /\ mergedAB = 0
  /\ mergedBA = 0
  /\ foundation = 0
  /\ brandSets = <<>>
  /\ touched = <<>>
  /\ CodecIdle
  /\ ResolveIdle
  /\ ClassifyIdle
  /\ SyncIdle

MergeInto(H, first, second) ==
  LET m == Len(H.o) + 1
  IN [h |-> deepMerge(deepMerge(Alloc(H), m, first), m, second), a |-> m]

MergeAB ==
  /\ mergedAB = 0
  /\ LET r == MergeInto(heap, files[1].tokens, files[2].tokens)
     IN heap' = r.h /\ mergedAB' = r.a
  /\ UNCHANGED <<pc, tokens, codecVars, resolveVars, classifyVars, files, mergedBA, foundation, brandSets, touched, syncVars>>

MergeBA ==
  /\ mergedBA = 0
  /\ LET r == MergeInto(heap, files[2].tokens, files[1].tokens)
     IN heap' = r.h /\ mergedBA' = r.a
  /\ UNCHANGED <<pc, tokens, codecVars, resolveVars, classifyVars, files, mergedAB, foundation, brandSets, touched, syncVars>>

NextMerge == MergeAB \/ MergeBA

SpecMerge == InitMerge /\ [][NextMerge]_vars

TreeA == Read(heap, files[1].tokens)
TreeB == Read(heap, files[2].tokens)
IsPrefix(p, q) == Len(p) <= Len(q) /\ SubSeq(q, 1, Len(p)) = p
LeavesOf(tree) == {<<p, At(tree, p)>> : p \in LeafPaths(tree)}
Disjoint(A, B) ==
  \A p \in LeafPaths(A), q \in LeafPaths(B) : ~IsPrefix(p, q) /\ ~IsPrefix(q, p)

(* C6: when A and B both define a Leaf at the same path, the tree merged   *)
(* A first, B second holds B's value at that path.                         *)
C6_MergeOverride ==
  mergedAB # 0 =>
    /\ ~heap.e
    /\ \A p \in LeafPaths(TreeA) \cap LeafPaths(TreeB) :
         ValueAt(Read(heap, mergedAB), p) = ValueAt(TreeB, p)

C6_Witness ==
  /\ mergedAB # 0
  /\ \E p \in LeafPaths(TreeA) \cap LeafPaths(TreeB) :
       /\ Len(p) = 2
       /\ ValueAt(TreeA, p) # ValueAt(TreeB, p)
       /\ ValueAt(Read(heap, mergedAB), p) = ValueAt(TreeB, p)

(* C7: when no leaf path of A equals or extends a leaf path of B (and the  *)
(* other way round), merging A then B and merging B then A give equal      *)
(* trees, whose leaves are exactly the leaves of A and the leaves of B.    *)
C7_MergeDisjoint ==
  (mergedAB # 0 /\ mergedBA # 0 /\ Disjoint(TreeA, TreeB)) =>
    /\ Read(heap, mergedAB) = Read(heap, mergedBA)
    /\ LeavesOf(Read(heap, mergedAB)) = LeavesOf(TreeA) \cup LeavesOf(TreeB)

C7_Witness ==
  /\ mergedAB # 0 /\ mergedBA # 0 /\ Disjoint(TreeA, TreeB)
  /\ \E p \in LeafPaths(TreeA), q \in LeafPaths(TreeB) : Len(p) = 2 /\ Len(q) = 2 /\ p[1] = q[1]
  /\ Read(heap, mergedAB) = Read(heap, mergedBA)
  /\ LeavesOf(Read(heap, mergedAB)) = LeavesOf(TreeA) \cup LeavesOf(TreeB)

----------------------------------------------------------------------------
(* Brand merge engine                                                      *)

RECURSIVE mergeFiles(_, _, _)
mergeFiles(H, target, fs) ==
  IF fs = <<>> THEN H
  ELSE mergeFiles(deepMerge(H, target, Head(fs).tokens), target, Tail(fs))

IsBase(f) == f.category = "base"
IsGlobal(f) == f.category = "global"
IsBrandFile(f) == f.category = "brand"

mergeBaseAndGlobalTokens_inputOrder(H, processedFiles) ==
  LET merged == Len(H.o) + 1
      IsFoundation(f) == IsBase(f) \/ IsGlobal(f)
  IN [h |-> mergeFiles(Alloc(H), merged, SelectSeq(processedFiles, IsFoundation)), a |-> merged]

mergeBaseAndGlobalTokens(H, processedFiles) ==
  LET merged == Len(H.o) + 1
      H1 == mergeFiles(Alloc(H), merged, SelectSeq(processedFiles, IsBase))
  IN [h |-> mergeFiles(H1, merged, SelectSeq(processedFiles, IsGlobal)), a |-> merged]

RECURSIVE brandOrder(_)
brandOrder(fs) ==
  IF fs = <<>> THEN <<>>
  ELSE LET rest == brandOrder(SubSeq(fs, 1, Len(fs) - 1))
           b == fs[Len(fs)].brand
       IN IF b = "" \/ \E i \in 1..Len(rest) : rest[i] = b THEN rest ELSE Append(rest, b)

RECURSIVE brandSetsFrom(_, _, _, _, _)
brandSetsFrom(H, brandFiles, baseTokens, names, sets) ==
  IF names = <<>> THEN [h |-> H, sets |-> sets]
  ELSE LET brandName == Head(names)
           OfBrand(f) == f.brand = brandName
           clone == deepClone(H, baseTokens)
           H1 == mergeFiles(clone.h, clone.a, SelectSeq(brandFiles, OfBrand))
       IN brandSetsFrom(H1, brandFiles, baseTokens, Tail(names), (brandName :> clone.a) @@ sets)

createBrandTokenSets(H, processedFiles, baseTokens) ==
  LET brandFiles == SelectSeq(processedFiles, IsBrandFile)
  IN brandSetsFrom(H, brandFiles, baseTokens, brandOrder(brandFiles), <<>>)

(* Brand specification: parsed files are merged into the foundation, the   *)
(* brand trees are derived from it, and one brand tree is then edited.     *)

MaxFiles == 3

BrandNames == {"acme", "globex"}
FileKinds ==
  {[category |-> "base", brand |-> ""], [category |-> "global", brand |-> ""]}
    \cup {[category |-> "brand", brand |-> b] : b \in BrandNames}
FileTrees ==
  { TreeOf({<<(<<W("x"), W("y")>>), LeafWith(Str(W("#ff0000")))>>}),
    TreeOf({<<(<<W("x"), W("y")>>), LeafWith(Str(W("#00ff00")))>>}),
    TreeOf({<<(<<W("x"), W("z")>>), LeafWith(Num(0))>>}) }

RECURSIVE SeqsUpTo(_, _)
SeqsUpTo(S, n) ==
  IF n = 0 THEN {<<>>}
  ELSE LET shorter == SeqsUpTo(S, n - 1)
       IN shorter \cup {Append(q, x) : q \in shorter, x \in S}

RECURSIVE LoadFiles(_, _, _)
LoadFiles(H, inputs, loaded) ==
  IF inputs = <<>> THEN [h |-> H, files |-> loaded]
  ELSE LET l == Load(H, Head(inputs)[2])
       IN LoadFiles(l.h, Tail(inputs),
                    Append(loaded, TokenFile(Head(inputs)[1].category, Head(inputs)[1].brand, l.a)))

InitBrand ==
  /\ \E inputs \in SeqsUpTo(FileKinds \X FileTrees, MaxFiles) :
       LET l == LoadFiles(EmptyHeap, inputs, <<>>)
       IN heap = l.h /\ files = l.files
  /\ pc = "start"
  /\ tokens = EmptyObj
  /\ mergedAB = 0
  /\ mergedBA = 0
  /\ foundation = 0
  /\ brandSets = <<>>
  /\ touched = <<>>
  /\ CodecIdle
  /\ ResolveIdle
  /\ ClassifyIdle
  /\ SyncIdle

MergeBaseAndGlobalTokens ==
  /\ pc = "start"
  /\ LET r == mergeBaseAndGlobalTokens(heap, files)
     IN heap' = r.h /\ foundation' = r.a
  /\ pc' = "foundation"
  /\ UNCHANGED <<tokens, codecVars, resolveVars, classifyVars, files, mergedAB, mergedBA, brandSets, touched, syncVars>>

CreateBrandTokenSets ==
  /\ pc = "foundation"
  /\ LET r == createBrandTokenSets(heap, files, foundation)
     IN heap' = r.h /\ brandSets' = r.sets
  /\ pc' = "brands"
  /\ UNCHANGED <<tokens, codecVars, resolveVars, classifyVars, files, mergedAB, mergedBA, foundation, touched, syncVars>>

EditBrandTree ==
  /\ pc = "brands"
  /\ \E b \in DOMAIN brandSets :
       \E a \in Reach(heap, brandSets[b]) :
         \E k \in DOMAIN heap.o[a] :
           /\ heap' = SetKey(heap, a, k, Str(W("edited")))
           /\ touched' = <<b>>
  /\ pc' = "edited"
  /\ UNCHANGED <<tokens, codecVars, resolveVars, classifyVars, files, mergedAB, mergedBA, foundation, brandSets, syncVars>>

NextBrand == MergeBaseAndGlobalTokens \/ CreateBrandTokenSets \/ EditBrandTree

SpecBrand == InitBrand /\ [][NextBrand]_vars

FileTree(i) == Read(heap, files[i].tokens)

(* C8: deriving the brand trees leaves the foundation and the parsed trees *)
(* of the input files unchanged, the brand trees share no object with each *)
(* other or with the foundation, and an edit of one brand tree changes     *)
(* neither the foundation nor another brand tree.                          *)
C8_BrandIsolation ==
  [][ /\ (pc = "foundation" /\ pc' = "brands") =>
           /\ Read(heap', foundation) = Read(heap, foundation)
           /\ \A i \in 1..Len(files) : Read(heap', files[i].tokens) = FileTree(i)
           /\ \A b \in DOMAIN brandSets' :
                /\ Reach(heap', brandSets'[b]) \cap Reach(heap', foundation) = {}
                /\ \A c \in DOMAIN brandSets' \ {b} :
                     Reach(heap', brandSets'[b]) \cap Reach(heap', brandSets'[c]) = {}
      /\ (pc = "brands" /\ pc' = "edited") =>
           /\ Read(heap', foundation) = Read(heap, foundation)
           /\ \A c \in DOMAIN brandSets \ {touched'[1]} :
                Read(heap', brandSets[c]) = Read(heap, brandSets[c]) ]_vars

C8_Witness ==
  /\ pc = "edited"
  /\ Cardinality(DOMAIN brandSets) = 2
  /\ DOMAIN Read(heap, foundation).v # {}
  /\ Read(heap, brandSets[touched[1]]) # Read(heap, foundation)

DefinedIn(i, p) == p \in LeafPaths(FileTree(i))
LastGlobal(p) ==
  CHOOSE i \in 1..Len(files) :
    /\ IsGlobal(files[i]) /\ DefinedIn(i, p)
    /\ \A j \in (i+1)..Len(files) : ~(IsGlobal(files[j]) /\ DefinedIn(j, p))

(* C9: a Leaf path defined in a base file and in a global file has, in the *)
(* foundation, the value of the last global file that defines it, wherever *)
(* the base file stands in the input list.                                 *)
C9_FoundationOrder ==
  pc = "foundation" =>
    \A p \in UNION {LeafPaths(FileTree(i)) : i \in 1..Len(files)} :
      ((\E i \in 1..Len(files) : IsBase(files[i]) /\ DefinedIn(i, p))
        /\ (\E i \in 1..Len(files) : IsGlobal(files[i]) /\ DefinedIn(i, p)))
      => ValueAt(Read(heap, foundation), p) = ValueAt(FileTree(LastGlobal(p)), p)

C9_Witness ==
  /\ pc = "foundation"
  /\ \E i, j \in 1..Len(files) :
       /\ i < j /\ IsGlobal(files[i]) /\ IsBase(files[j])
       /\ \E p \in LeafPaths(FileTree(i)) \cap LeafPaths(FileTree(j)) :
            /\ ValueAt(FileTree(i), p) # ValueAt(FileTree(j), p)
            /\ ValueAt(Read(heap, foundation), p) = ValueAt(FileTree(i), p)

----------------------------------------------------------------------------
(* Structure classifier.  A file path is a string: a sequence of atoms in  *)
(* which "/" separates the segments.                                       *)

Includes(s, sub) == \E i \in 1..(Len(s) - Len(sub) + 1) : SubSeq(s, i, i + Len(sub) - 1) = sub

NoSlash(s) == ~HasSep(s, "/")

NoMatch == [found |-> FALSE, text |-> <<>>, name |-> <<>>]
Match(text, name) == [found |-> TRUE, text |-> text, name |-> name]

(* /\/(folders)\/([^\/]+)\// : leftmost "/", a folder segment, "/", a       *)
(* non-empty segment, "/".                                                 *)
FolderMatchAt(path, folders, i) ==
  /\ path[i] = "/"
  /\ \E j \in (i+2)..Len(path), k \in (i+4)..Len(path) :
       /\ j + 1 < k
       /\ path[j] = "/" /\ path[k] = "/"
       /\ SubSeq(path, i + 1, j - 1) \in folders
       /\ NoSlash(SubSeq(path, j + 1, k - 1))

matchFolder(path, folders) ==
  IF \E i \in 1..Len(path) : FolderMatchAt(path, folders, i)
  THEN LET i == CHOOSE x \in 1..Len(path) :
                  FolderMatchAt(path, folders, x) /\ \A y \in 1..(x-1) : ~FolderMatchAt(path, folders, y)
           j == CHOOSE x \in (i+2)..Len(path) : path[x] = "/" /\ SubSeq(path, i + 1, x - 1) \in folders
           k == CHOOSE x \in (j+2)..Len(path) : path[x] = "/" /\ NoSlash(SubSeq(path, j + 1, x - 1))
       IN Match(SubSeq(path, i, k), SubSeq(path, j + 1, k - 1))
  ELSE NoMatch

(* /^([^\/]+)\/tokens\// *)
matchBeforeTokens(path) ==
  IF HasSep(path, "/") /\ FirstSep(path, "/") > 1
  THEN LET i == FirstSep(path, "/")
       IN IF i + 2 <= Len(path) /\ path[i + 1] = "tokens" /\ path[i + 2] = "/"
          THEN Match(SubSeq(path, 1, i + 2), SubSeq(path, 1, i - 1))
          ELSE NoMatch
  ELSE NoMatch

(* /^tokens\/([^\/]+)\// *)
matchAfterTokens(path) ==
  IF Len(path) >= 4 /\ path[1] = "tokens" /\ path[2] = "/" /\ path[3] # "/"
     /\ HasSep(SubSeq(path, 3, Len(path)), "/")
  THEN LET k == 2 + FirstSep(SubSeq(path, 3, Len(path)), "/")
       IN Match(SubSeq(path, 1, k), SubSeq(path, 3, k - 1))
  ELSE NoMatch

toLowerAtom(a) ==
  CASE a = "Global" -> "global"
    [] a = "Common" -> "common"
    [] a = "Acme" -> "acme"
    [] a = "Color" -> "color"
    [] a = "Size" -> "size"
    [] a = "Tokens" -> "tokens"
    [] a = "COLOR" -> "color"
    [] a = "Dimension" -> "dimension"
    [] a = "letterSpacing" -> "letterspacing"
    [] a = "LetterSpacing" -> "letterspacing"
    [] OTHER -> a
toLowerCase(s) == [i \in 1..Len(s) |-> toLowerAtom(s[i])]

defaultPatterns == {W("brand"), W("brands"), W("theme"), W("themes"), W("variant"), W("variants")}
excludedNames ==
  {W("globals"), W("global"), W("base"), W("core"), W("palette"), W("foundation"),
   W("primitives"), W("common")}

isGlobalPath(path) ==
  \/ Includes(path, <<"/", "globals", "/">>) \/ Includes(path, <<"globals", ".json">>)
  \/ Includes(path, <<"/", "global", "/">>) \/ Includes(path, <<"global", ".json">>)

isBasePath(path) ==
  \/ Includes(path, <<"/", "base", "/">>) \/ Includes(path, <<"base", ".json">>)
  \/ Includes(path, <<"/", "core", "/">>) \/ Includes(path, <<"core", ".json">>)
  \/ Includes(path, <<"/", "palette", "/">>) \/ Includes(path, <<"palette", ".json">>)

brandMatchOf(path, pattern) ==
  LET brandPatterns == IF pattern # <<>> THEN {pattern} \cup defaultPatterns ELSE defaultPatterns
      m1 == matchFolder(path, brandPatterns)
      m2 == matchFolder(path, {W("tokens")})
      m3 == matchBeforeTokens(path)
      m4 == matchAfterTokens(path)
  IN IF m1.found THEN m1 ELSE IF m2.found THEN m2 ELSE IF m3.found THEN m3 ELSE m4

isExcluded_caseSensitive(brandName) == brandName \in excludedNames

isExcluded(brandName) == toLowerCase(brandName) \in excludedNames

addBrandFile(brands, brandName, text, path) ==
  IF \E i \in 1..Len(brands) : brands[i].name = brandName
  THEN [i \in 1..Len(brands) |->
          IF brands[i].name = brandName
          THEN [brands[i] EXCEPT !.files = Append(@, path)] ELSE brands[i]]
  ELSE Append(brands, [name |-> brandName, path |-> text, files |-> <<path>>])

classifyOne_dropUnmatched(st, path, pattern) ==
  IF path = <<>> THEN st
  ELSE IF isGlobalPath(path) THEN [st EXCEPT !.globalFiles = Append(@, path)]
  ELSE IF isBasePath(path) THEN [st EXCEPT !.baseFiles = Append(@, path)]
  ELSE LET brandMatch == brandMatchOf(path, pattern)
       IN IF brandMatch.found
          THEN IF ~isExcluded(brandMatch.name)
               THEN [st EXCEPT !.brands = addBrandFile(@, brandMatch.name, brandMatch.text, path)]
               ELSE [st EXCEPT !.globalFiles = Append(@, path)]
          ELSE st

classifyOne(st, path, pattern) ==
  IF path = <<>> THEN st
  ELSE IF isGlobalPath(path) THEN [st EXCEPT !.globalFiles = Append(@, path)]
  ELSE IF isBasePath(path) THEN [st EXCEPT !.baseFiles = Append(@, path)]
  ELSE LET brandMatch == brandMatchOf(path, pattern)
       IN IF brandMatch.found
          THEN IF ~isExcluded(brandMatch.name)
               THEN [st EXCEPT !.brands = addBrandFile(@, brandMatch.name, brandMatch.text, path)]
               ELSE [st EXCEPT !.globalFiles = Append(@, path)]
          ELSE [st EXCEPT !.globalFiles = Append(@, path)]

RECURSIVE classifyAll(_, _, _)
classifyAll(st, paths, pattern) ==
  IF paths = <<>> THEN st
  ELSE classifyAll(classifyOne(st, Head(paths), pattern), Tail(paths), pattern)

detectMultiBrandStructure(paths, pattern) == classifyAll(NoStructure, paths, pattern)

(* Classifier specification                                                *)

MaxPaths == 2

P(words) == [i \in 1..(2 * Len(words)) |->
               IF i = 2 * Len(words) THEN ".json"
               ELSE IF i % 2 = 1 THEN words[(i + 1) \div 2] ELSE "/"]

PathPool ==
  { P(<<"tokens", "base">>),
    P(<<"tokens", "brands", "acme", "colors">>),
    P(<<"tokens", "brands", "globex", "colors">>),
    P(<<"tokens", "brand", "global", "colors">>),
    P(<<"tokens", "brand", "Global", "colors">>),
    P(<<"tokens", "brands", "Common", "colors">>),
    P(<<"tokens", "foundation", "colors">>),
    P(<<"tokens", "Acme", "colors">>),
    P(<<"acme", "tokens", "colors">>),
    P(<<"src", "tokens", "primitives", "colors">>),
    P(<<"tokens", "skins", "dark", "colors">>),
    P(<<"tokens", "skins", "Global", "colors">>),
    P(<<"colors">>),
    <<>> }

PatternPool == {<<>>, W("skins")}

InitClassify ==
  /\ tokenFiles \in SeqsUpTo(PathPool, MaxPaths)
  /\ brandFolderPattern \in PatternPool
  /\ structure = NoStructure
  /\ pc = "start"
  /\ tokens = EmptyObj
  /\ CodecIdle
  /\ ResolveIdle
  /\ MergeIdle
  /\ SyncIdle

DetectMultiBrandStructure ==
  /\ pc = "start"
  /\ structure' = detectMultiBrandStructure(tokenFiles, brandFolderPattern)
  /\ pc' = "classified"
  /\ UNCHANGED <<tokens, codecVars, resolveVars, mergeVars, tokenFiles, brandFolderPattern, syncVars>>

NextClassify == DetectMultiBrandStructure

SpecClassify == InitClassify /\ [][NextClassify]_vars

ReservedNames == {"global", "globals", "base", "core", "palette", "foundation", "primitives", "common"}
InSeq(x, q) == \E i \in 1..Len(q) : q[i] = x

(* C10: no brand of the detected structure has a reserved name, compared   *)
(* case-insensitively, and every path containing /brand/global/ is in      *)
(* globalFiles.                                                            *)
C10_ClassifierExclusion ==
  pc = "classified" =>
    /\ \A i \in 1..Len(structure.brands) :
         ~(\E r \in ReservedNames : toLowerCase(structure.brands[i].name) = <<r>>)
    /\ \A i \in 1..Len(tokenFiles) :
         Includes(tokenFiles[i], <<"/", "brand", "/", "global", "/">>)
           => InSeq(tokenFiles[i], structure.globalFiles)

C10_Witness ==
  /\ pc = "classified"
  /\ InSeq(P(<<"tokens", "brand", "global", "colors">>), structure.globalFiles)
  /\ InSeq(P(<<"tokens", "skins", "Global", "colors">>), structure.globalFiles)
  /\ brandFolderPattern = W("skins")

Count(x, q) == Cardinality({i \in 1..Len(q) : q[i] = x})

BucketsOf(path) ==
  (IF InSeq(path, structure.globalFiles) THEN {"globalFiles"} ELSE {})
  \cup (IF InSeq(path, structure.baseFiles) THEN {"baseFiles"} ELSE {})
  \cup {i \in 1..Len(structure.brands) : InSeq(path, structure.brands[i].files)}

RECURSIVE Flat(_)
Flat(qs) == IF qs = <<>> THEN <<>> ELSE Head(qs) \o Flat(Tail(qs))

Classified ==
  structure.globalFiles \o structure.baseFiles
    \o Flat([i \in 1..Len(structure.brands) |-> structure.brands[i].files])

PartitionOf(paths) ==
  /\ \A p \in paths : Cardinality(BucketsOf(p)) = 1 /\ Count(p, Classified) = Count(p, tokenFiles)
  /\ \A i \in 1..Len(Classified) : InSeq(Classified[i], tokenFiles)

InputPaths == {tokenFiles[i] : i \in 1..Len(tokenFiles)}

----------------------------------------------------------------------------
(* Change summary.  A Leaf compared by the summary carries the order of    *)
(* its keys (field o), which JSON.stringify follows; a Map is a sequence   *)
(* of entries in insertion order.                                          *)

Leaf(f, order) == [t |-> "obj", v |-> f, o |-> order]

mapHas(m, k) == \E i \in 1..Len(m) : m[i].k = k
mapGet(m, k) == m[CHOOSE i \in 1..Len(m) : m[i].k = k].v
mapSet(m, k, x) ==
  IF mapHas(m, k) THEN [i \in 1..Len(m) |-> IF m[i].k = k THEN [k |-> k, v |-> x] ELSE m[i]]
  ELSE Append(m, [k |-> k, v |-> x])

RECURSIVE mapSetAll(_, _)
mapSetAll(m, nested) ==
  IF nested = <<>> THEN m
  ELSE mapSetAll(mapSet(m, Head(nested).k, Head(nested).v), Tail(nested))

RECURSIVE summaryFlattenFrom(_, _, _, _)
summaryFlatten(toks, prefix) == summaryFlattenFrom(toks, prefix, Entries(toks), <<>>)
summaryFlattenFrom(toks, prefix, keys, found) ==
  IF keys = <<>> THEN found
  ELSE LET key == Head(keys)
           value == toks.v[key]
           path == IF prefix # <<>> THEN prefix \o <<".">> \o key ELSE key
           next == IF ~Falsy(value) /\ IsObj(value) /\ Has(value, kValue)
                   THEN mapSet(found, path, value)
                   ELSE IF ~Falsy(value) /\ IsObj(value)
                   THEN mapSetAll(found, summaryFlatten(value, path))
                   ELSE found
       IN summaryFlattenFrom(toks, prefix, Tail(keys), next)

stringify(x) == IF IsObj(x) THEN [i \in 1..Len(x.o) |-> <<x.o[i], x.v[x.o[i]]>>] ELSE <<x>>

leafDiffers_always(oldValue, newValue) == TRUE

leafDiffers(oldValue, newValue) == stringify(oldValue) # stringify(newValue)

RECURSIVE addedAndModified(_, _, _)
addedAndModified(newFlat, oldFlat, ch) ==
  IF newFlat = <<>> THEN ch
  ELSE LET path == Head(newFlat).k
           next == IF ~mapHas(oldFlat, path) THEN [ch EXCEPT !.added = Append(@, path)]
                   ELSE IF leafDiffers(mapGet(oldFlat, path), Head(newFlat).v)
                   THEN [ch EXCEPT !.modified = Append(@, path)]
                   ELSE ch
       IN addedAndModified(Tail(newFlat), oldFlat, next)

RECURSIVE removedFrom(_, _, _)
removedFrom(oldFlat, newFlat, ch) ==
  IF oldFlat = <<>> THEN ch
  ELSE removedFrom(Tail(oldFlat), newFlat,
         IF ~mapHas(newFlat, Head(oldFlat).k) THEN [ch EXCEPT !.removed = Append(@, Head(oldFlat).k)]
         ELSE ch)

generateChangeSummary(old, new) ==
  LET oldFlat == summaryFlatten(old, <<>>)
      newFlat == summaryFlatten(new, <<>>)
  IN removedFrom(oldFlat, newFlat, addedAndModified(newFlat, oldFlat, NoChanges))

(* Change summary specification: two trees whose Leaves sit at a.b, a.c    *)
(* and d.                                                                  *)

DiffMaxEntries == 2

DiffPaths == { <<W("a"), W("b")>>, <<W("a"), W("c")>>, <<W("d")>> }
DiffNodes ==
  { Leaf(kValue :> Num(1), <<kValue>>),
    Leaf(kValue :> Num(2), <<kValue>>),
    Leaf((kValue :> Num(1)) @@ (kType :> Str(W("number"))), <<kValue, kType>>),
    Leaf((kValue :> Num(1)) @@ (kType :> Str(W("number"))), <<kType, kValue>>) }

RECURSIVE DiffTreeOf(_)
DiffTreeOf(E) ==
  LET heads == {e[1][1] : e \in E}
      nodeOf(k) ==
        IF \E e \in E : e[1] = <<k>> THEN (CHOOSE e \in E : e[1] = <<k>>)[2]
        ELSE DiffTreeOf({<<Tail(e[1]), e[2]>> : e \in {x \in E : x[1][1] = k}})
  IN Obj([k \in heads |-> nodeOf(k)])

DiffTrees ==
  {DiffTreeOf(E) : E \in {X \in SubsetsUpTo(DiffPaths \X DiffNodes, DiffMaxEntries) : DistinctPaths(X)}}

InitDiff ==
  /\ oldTokens \in DiffTrees
  /\ newTokens \in DiffTrees
  /\ changes = NoChanges
  /\ ImportIdle
  /\ PluginIdle
  /\ pc = "start"
  /\ tokens = EmptyObj
  /\ CodecIdle
  /\ ResolveIdle
  /\ MergeIdle
  /\ ClassifyIdle

GenerateChangeSummary ==
  /\ pc = "start"
  /\ changes' = generateChangeSummary(oldTokens, newTokens)
  /\ pc' = "summarised"
  /\ UNCHANGED <<tokens, codecVars, resolveVars, mergeVars, classifyVars, oldTokens, newTokens, importVars,
               pluginVars>>

NextDiff == GenerateChangeSummary

SpecDiff == InitDiff /\ [][NextDiff]_vars

RECURSIVE Dot(_)
Dot(p) == IF Len(p) = 1 THEN p[1] ELSE p[1] \o <<".">> \o Dot(Tail(p))

SetOf(q) == {q[i] : i \in 1..Len(q)}

(* C12: the change summary of a tree against itself has empty added,       *)
(* modified and removed lists.                                             *)
C12_DiffSelf ==
  (pc = "summarised" /\ oldTokens = newTokens) => changes = NoChanges

C12_Witness ==
  /\ pc = "summarised" /\ oldTokens = newTokens
  /\ Cardinality(LeafPaths(oldTokens)) = 2
  /\ \E p \in LeafPaths(oldTokens) : Len(p) = 2 /\ At(oldTokens, p).o = <<kType, kValue>>
  /\ changes = NoChanges

(* C13: added holds exactly the dot-joined leaf paths only in the new      *)
(* tree, removed exactly those only in the old tree, and modified exactly  *)
(* those in both whose Leaves do not have the same keys and values.        *)
C13_DiffClassification ==
  pc = "summarised" =>
    LET inOld == LeafPaths(oldTokens)
        inNew == LeafPaths(newTokens)
    IN /\ SetOf(changes.added) = {Dot(p) : p \in inNew \ inOld}
       /\ SetOf(changes.removed) = {Dot(p) : p \in inOld \ inNew}
       /\ SetOf(changes.modified) =
            {Dot(p) : p \in {q \in inOld \cap inNew : At(oldTokens, q).v # At(newTokens, q).v}}

----------------------------------------------------------------------------
(* C19: when A and B hold a Leaf at the same path, the Leaf of the tree    *)
(* merged from A then B is B's Leaf, with exactly B's attributes.          *)
C19_NoPartialLeafMerge ==
  mergedAB # 0 =>
    \A p \in LeafPaths(TreeA) \cap LeafPaths(TreeB) :
      At(Read(heap, mergedAB), p) = At(TreeB, p)

----------------------------------------------------------------------------
(* Unflatten specification: the tokens of exported variables, whose names  *)
(* may be prefixes of each other, are set one by one into the token object *)
(* of their collection.                                                    *)

MaxVariables == 3

collectionKey == W("c")
fullPath(name) == collectionKey \o <<"/">> \o name

VariableNames == { W("a"), <<"a", "/", "b">>, <<"a", "/", "b", "/", "c">>, W("b") }
ExportedTokens ==
  { [path |-> fullPath(n), value |-> Num(1), type |-> Str(W("number")), comment |-> Undefined]
      : n \in VariableNames }

DistinctNames(q) == \A i, j \in 1..Len(q) : q[i].path = q[j].path => i = j

InitUnflatten ==
  /\ flat \in {q \in SeqsUpTo(ExportedTokens, MaxVariables) : DistinctNames(q)}
  /\ idx = 1
  /\ rebuilt = Obj(collectionKey :> EmptyObj)
  /\ pc = "flat"
  /\ tokens = EmptyObj
  /\ ResolveIdle
  /\ MergeIdle
  /\ ClassifyIdle
  /\ SyncIdle

NextUnflatten == SetNestedValue

SpecUnflatten == InitUnflatten /\ [][NextUnflatten]_vars

RECURSIVE NoGroupInLeaf(_)
NoGroupInLeaf(o) ==
  \A k \in DOMAIN o.v :
    IsObj(o.v[k]) =>
      /\ ~(Has(o, kValue) /\ ~Has(o.v[k], kValue))
      /\ NoGroupInLeaf(o.v[k])

(* C20: setting the tokens of variables whose names are prefixes of each   *)
(* other never throws, and no node of the rebuilt tree has both a value    *)
(* key and a Group-shaped child.                                           *)
C20_UnflattenOverLeaf ==
  Rebuilt => ~IsThrown(rebuilt) /\ NoGroupInLeaf(rebuilt)

----------------------------------------------------------------------------
(* Token import.  Value conversion: a string value is a sequence of atoms  *)
(* such as <<"#", "ff0000">>, <<"16", "px">> or <<"hsl", "(0,100%,50%)">>. *)

Null == [t |-> "null", v |-> 0]
IsNull(x) == x.t = "null"
Rgba(s) == [t |-> "rgba", v |-> s]

colorTypes == {"color", "colorrgb", "colorhex", "colorrgba"}
floatTypes ==
  {"dimension", "size", "sizing", "spacing", "fontsize", "fontweight", "lineheight",
   "letterSpacing", "opacity", "number"}
stringTypes == {"string", "fontfamily", "fontstyle", "text"}

Digits == {"0", "1", "16"}
Units == {"px", "rem", "em", "pt", "%"}
NumberOf(a) == CASE a = "0" -> 0 [] a = "1" -> 1 [] a = "16" -> 16 [] OTHER -> 0
TextOf(n) == CASE n = 0 -> "0" [] n = 1 -> "1" [] n = 16 -> "16" [] OTHER -> "n"
HexLength(a) == CASE a \in {"ff0000", "00ff00", "0000ff", "000000"} -> 6 [] a = "f00" -> 3 [] OTHER -> 0

startsWith(s, prefixes) == Len(s) >= 1 /\ s[1] \in prefixes

getFigmaVariableType(sdType, value) ==
  LET type == IF sdType.t = "str" /\ Len(sdType.v) = 1 THEN toLowerAtom(sdType.v[1]) ELSE ""
  IN IF type \in colorTypes THEN "COLOR"
     ELSE IF type \in floatTypes THEN "FLOAT"
     ELSE IF type = "boolean" THEN "BOOLEAN"
     ELSE IF type \in stringTypes THEN "STRING"
     ELSE IF value.t = "bool" THEN "BOOLEAN"
     ELSE IF value.t = "num" THEN "FLOAT"
     ELSE IF value.t = "str" THEN
            IF startsWith(value.v, {"#", "rgb", "rgba", "hsl", "hsla"}) THEN "COLOR"
            ELSE IF Len(value.v) = 2 /\ value.v[1] \in Digits /\ value.v[2] \in Units THEN "FLOAT"
            ELSE "STRING"
     ELSE "STRING"

parseColor(color) ==
  IF startsWith(color, {"#"}) /\ Len(color) = 2 /\ HexLength(color[2]) \in {3, 6, 8} THEN Rgba(color)
  ELSE IF color = <<>> THEN Null
  ELSE IF \E i \in 1..(Len(color) - 1) : color[i] \in {"rgb", "rgba"} /\ color[i + 1] = "(255,0,0)"
       THEN Rgba(color)
  ELSE Null

parseDimension(dimension) ==
  IF dimension = <<>> THEN Num(0)
  ELSE IF dimension[1] \in Digits THEN Num(NumberOf(dimension[1]))
  ELSE Num(0)

String(value) ==
  CASE value.t = "str" -> value
    [] value.t = "num" -> Str(<<TextOf(value.v)>>)
    [] value.t = "bool" -> Str(<<IF value.v THEN "true" ELSE "false">>)
    [] value.t = "obj" -> Str(<<"[object Object]">>)
    [] OTHER -> Str(<<value.t>>)

convertTokenValue(value, type) ==
  IF type = "COLOR" THEN
    LET colorValue == IF IsObj(value) /\ Has(value, kValue) THEN value.v[kValue] ELSE value
    IN IF colorValue.t = "str"
       THEN LET color == parseColor(colorValue.v)
            IN IF IsNull(color) THEN Thrown("Invalid color value") ELSE color
       ELSE Thrown("Color value must be a string")
  ELSE IF type = "FLOAT" THEN
    IF value.t = "num" THEN value
    ELSE IF value.t = "str" THEN parseDimension(value.v)
    ELSE Thrown("Float value must be a number or string")
  ELSE IF type = "BOOLEAN" THEN
    IF value.t = "bool" THEN value
    ELSE IF value.t = "str" THEN Bool(toLowerCase(value.v) = <<"true">>)
    ELSE Thrown("Boolean value must be a boolean or string")
  ELSE IF type = "STRING" THEN String(value)
  ELSE Null

capitalize(a) == CASE a = "color" -> "Color" [] a = "size" -> "Size" [] OTHER -> a

RECURSIVE Join(_, _)
Join(parts, sep) ==
  IF parts = <<>> THEN <<>>
  ELSE IF Len(parts) = 1 THEN parts[1]
  ELSE parts[1] \o <<sep>> \o Join(Tail(parts), sep)

getCollectionName(path) ==
  LET name == Split(path, "/")[1]
  IN IF name = <<>> THEN name ELSE <<capitalize(name[1])>> \o Tail(name)

getVariableName(path) ==
  LET segments == Split(path, "/")
  IN IF Len(segments) > 1 THEN Join(Tail(segments), "/") ELSE segments[1]

(* Variable store of the Figma document: collections with modes and        *)
(* variables; a variable holds one value per mode.  A variable has an id   *)
(* that no other variable of the document ever had: the collection counts  *)
(* the variables created in it.                                            *)

EmptyFigma == [collections |-> <<>>]

InitialValue(type) == [t |-> "initial", v |-> type]

createVariableCollection(name) ==
  [name |-> name, defaultModeId |-> 1,
   modes |-> <<[modeId |-> 1, name |-> W("Mode 1")]>>, variables |-> <<>>, created |-> 0]

IndexOf(q, Test(_)) == IF \E i \in 1..Len(q) : Test(q[i]) THEN CHOOSE i \in 1..Len(q) : Test(q[i]) /\ \A j \in 1..(i - 1) : ~Test(q[j]) ELSE 0

getVariableCollectionByName(F, name) ==
  LET Named(c) == c.name = name IN IndexOf(F.collections, Named)

getOrCreateCollection(F, name) ==
  IF getVariableCollectionByName(F, name) # 0
  THEN [figma |-> F, i |-> getVariableCollectionByName(F, name)]
  ELSE [figma |-> [F EXCEPT !.collections = Append(@, createVariableCollection(name))],
        i |-> Len(F.collections) + 1]

getModeId(collection, modeName) ==
  LET Named(m) == m.name = modeName
      i == IndexOf(collection.modes, Named)
  IN IF modeName = <<>> THEN collection.defaultModeId
     ELSE IF i # 0 THEN collection.modes[i].modeId
     ELSE collection.defaultModeId

getVariableByName(collection, name) ==
  LET Named(v) == v.name = name IN IndexOf(collection.variables, Named)

createVariable(collection, name, type) ==
  [collection EXCEPT
     !.created = @ + 1,
     !.variables =
       Append(@, [id |-> collection.created + 1, name |-> name, resolvedType |-> type,
                  description |-> <<>>,
                  valuesByMode |-> [m \in 1..Len(collection.modes) |-> InitialValue(type)]])]

remove(collection, i) ==
  [collection EXCEPT !.variables =
     SubSeq(@, 1, i - 1) \o SubSeq(@, i + 1, Len(@))]

setVariableInMode(collection, name, type, value, modeId, description) ==
  LET found == getVariableByName(collection, name)
      c1 == IF found = 0 THEN createVariable(collection, name, type)
            ELSE IF collection.variables[found].resolvedType # type
                 THEN createVariable(remove(collection, found), name, type)
                 ELSE collection
      i == IF found = 0 \/ collection.variables[found].resolvedType # type
           THEN Len(c1.variables) ELSE found
  IN [c1 EXCEPT !.variables[i].valuesByMode[modeId] = value,
                !.variables[i].description =
                   IF description.t = "str" /\ description.v # <<>> THEN description.v ELSE @]

setVariable(collection, name, type, value, description) ==
  setVariableInMode(collection, name, type, value, collection.defaultModeId, description)

setVariableForMode(collection, name, type, value, modeName, description) ==
  setVariableInMode(collection, name, type, value, getModeId(collection, modeName), description)

addMode(collection, name) ==
  [collection EXCEPT
     !.modes = Append(@, [modeId |-> Len(@) + 1, name |-> name]),
     !.variables = [i \in 1..Len(@) |->
                      [@[i] EXCEPT !.valuesByMode = Append(@, @[collection.defaultModeId])]]]

(* Result of a transformation; an entry of errors or warnings names what   *)
(* failed and the token or collection it failed on.                        *)

NewResult ==
  [success |-> TRUE, collectionsCreated |-> 0, variablesCreated |-> 0, variablesUpdated |-> 0,
   errors |-> <<>>, warnings |-> <<>>]

Note(what, on) == [what |-> what, on |-> on]

NoOptions == [collectionName |-> <<>>, targetMode |-> <<>>]

collectionNameOf(token, options) ==
  IF options.collectionName # <<>> THEN options.collectionName ELSE getCollectionName(token.path)

variableNameOf(token, options) ==
  IF options.collectionName # <<>> THEN token.path ELSE getVariableName(token.path)

RECURSIVE groupByCollection(_, _, _)
groupByCollection(flatTokens, options, groups) ==
  IF flatTokens = <<>> THEN groups
  ELSE LET token == Head(flatTokens)
           name == collectionNameOf(token, options)
           Named(g) == g.name = name
           i == IndexOf(groups, Named)
       IN groupByCollection(Tail(flatTokens), options,
            IF i = 0 THEN Append(groups, [name |-> name, tokens |-> <<token>>])
            ELSE [groups EXCEPT ![i].tokens = Append(@, token)])

existingVariableNames(collection) ==
  {collection.variables[i].name : i \in 1..Len(collection.variables)}

(* One iteration of the token loop: S holds the store and the result.      *)

processToken(S, ci, token, options, existing) ==
  LET figmaType == getFigmaVariableType(token.type, token.value)
      figmaValue == convertTokenValue(token.value, figmaType)
      variableName == variableNameOf(token, options)
      collection == S.figma.collections[ci]
  IN IF IsThrown(figmaValue)
     THEN [S EXCEPT !.result.errors = Append(@, Note("token", token.path))]
     ELSE IF IsNull(figmaValue)
     THEN [S EXCEPT !.result.warnings = Append(@, Note("token", token.path))]
     ELSE [S EXCEPT
            !.figma.collections[ci] =
               IF options.targetMode # <<>>
               THEN setVariableForMode(collection, variableName, figmaType, figmaValue,
                                       options.targetMode, token.comment)
               ELSE setVariable(collection, variableName, figmaType, figmaValue, token.comment),
            !.result.variablesUpdated = IF variableName \in existing THEN @ + 1 ELSE @,
            !.result.variablesCreated = IF variableName \in existing THEN @ ELSE @ + 1]

RECURSIVE processTokens(_, _, _, _, _)
processTokens(S, ci, toks, options, existing) ==
  IF toks = <<>> THEN S
  ELSE processTokens(processToken(S, ci, Head(toks), options, existing), ci, Tail(toks),
                     options, existing)

RECURSIVE processCollections(_, _, _)
processCollections(S, groups, options) ==
  IF groups = <<>> THEN S
  ELSE LET group == Head(groups)
           existed == getVariableCollectionByName(S.figma, group.name) # 0
           got == getOrCreateCollection(S.figma, group.name)
           S1 == [S EXCEPT !.figma = got.figma,
                           !.result.collectionsCreated = IF existed THEN @ ELSE @ + 1]
           existing == existingVariableNames(S1.figma.collections[got.i])
       IN processCollections(processTokens(S1, got.i, group.tokens, options, existing),
                             Tail(groups), options)

finished(S) == [S EXCEPT !.result.success = (S.result.errors = <<>>)]

transformFlatTokens(F, flatTokens, options) ==
  IF flatTokens = <<>>
  THEN [figma |-> F, result |-> [NewResult EXCEPT !.warnings = <<Note("empty", <<>>)>>]]
  ELSE finished(processCollections([figma |-> F, result |-> NewResult],
                                   groupByCollection(flatTokens, options, <<>>), options))

transformTokensToFigma(F, toks, options) ==
  transformFlatTokens(F, flattenTokens(toks, <<>>), options)

(* Multi-brand import.  A pfiles file holds its parsed tree as a value; *)
(* the merges run on a heap loaded with the trees of the files.            *)

RECURSIVE loadProcessed(_, _, _)
loadProcessed(H, pfiles, loaded) ==
  IF pfiles = <<>> THEN [h |-> H, files |-> loaded]
  ELSE LET l == Load(H, Head(pfiles).tokens)
       IN loadProcessed(l.h, Tail(pfiles), Append(loaded, [Head(pfiles) EXCEPT !.tokens = l.a]))

Default == W("Default")

RECURSIVE addModes(_, _, _)
addModes(collection, brandNames, existingModeNames) ==
  IF brandNames = <<>> THEN collection
  ELSE addModes(IF Head(brandNames) \in existingModeNames THEN collection
                ELSE addMode(collection, Head(brandNames)),
                Tail(brandNames), existingModeNames)

ensureModesInCollection(collection, brandNames, renamed) ==
  LET existingModeNames == {collection.modes[i].name : i \in 1..Len(collection.modes)}
      c1 == addModes(collection, brandNames, existingModeNames)
      IsDefault(m) == m.modeId = collection.defaultModeId
      d == IndexOf(collection.modes, IsDefault)
  IN IF d # 0 /\ collection.modes[d].name # Default /\ renamed
     THEN [c1 EXCEPT !.modes[d].name = Default]
     ELSE c1

brandNamesOf(brandStructure) == [i \in 1..Len(brandStructure.brands) |-> brandStructure.brands[i].name]

mergedBrand(H1, a) == [failed |-> H1.e, tokens |-> IF H1.e THEN EmptyObj ELSE Read(H1, a)]

mergeIntoClone(clone, brandFiles) == mergedBrand(mergeFiles(clone.h, clone.a, brandFiles), clone.a)

brandTokensOf(H, baseTokens, loaded, brandName) ==
  LET OfBrand(f) == f.brand = brandName
  IN mergeIntoClone(deepClone(H, baseTokens), SelectSeq(loaded, OfBrand))

processBaseToken(S, ci, token, options, existing) ==
  LET figmaType == getFigmaVariableType(token.type, token.value)
      figmaValue == convertTokenValue(token.value, figmaType)
      variableName == variableNameOf(token, options)
  IN IF IsThrown(figmaValue)
     THEN [S EXCEPT !.result.errors = Append(@, Note("base token", token.path))]
     ELSE IF IsNull(figmaValue)
     THEN [S EXCEPT !.result.warnings = Append(@, Note("token", token.path))]
     ELSE [S EXCEPT
            !.figma.collections[ci] =
               setVariableForMode(@, variableName, figmaType, figmaValue, Default, token.comment),
            !.result.variablesUpdated = IF variableName \in existing THEN @ + 1 ELSE @,
            !.result.variablesCreated = IF variableName \in existing THEN @ ELSE @ + 1]

RECURSIVE processBaseTokens(_, _, _, _, _)
processBaseTokens(S, ci, toks, options, existing) ==
  IF toks = <<>> THEN S
  ELSE processBaseTokens(processBaseToken(S, ci, Head(toks), options, existing), ci, Tail(toks),
                         options, existing)

processBrandToken(S, ci, token, options, brandName) ==
  LET figmaType == getFigmaVariableType(token.type, token.value)
      figmaValue == convertTokenValue(token.value, figmaType)
      variableName == variableNameOf(token, options)
  IN IF IsThrown(figmaValue)
     THEN [S EXCEPT !.result.warnings = Append(@, Note("brand value", token.path))]
     ELSE IF IsNull(figmaValue) THEN S
     ELSE [S EXCEPT
            !.figma.collections[ci] =
               setVariableForMode(@, variableName, figmaType, figmaValue, brandName, token.comment)]

RECURSIVE processBrandTokens(_, _, _, _, _)
processBrandTokens(S, ci, toks, options, brandName) ==
  IF toks = <<>> THEN S
  ELSE processBrandTokens(processBrandToken(S, ci, Head(toks), options, brandName), ci,
                          Tail(toks), options, brandName)

RECURSIVE processBrands(_, _, _, _, _, _, _, _)
RECURSIVE processBrand(_, _, _, _, _, _, _, _, _)
processBrand(S, ci, collectionName, brandNames, brandTokens, H, baseTokens, loaded, options) ==
  LET InCollection(token) == collectionNameOf(token, options) = collectionName
  IN IF brandTokens.failed
     THEN [S EXCEPT !.result.errors = Append(@, Note("collection", collectionName))]
     ELSE processBrands(processBrandTokens(S, ci,
                          SelectSeq(flattenTokens(brandTokens.tokens, <<>>), InCollection),
                          options, Head(brandNames)),
                        ci, collectionName, Tail(brandNames), H, baseTokens, loaded, options)

processBrands(S, ci, collectionName, brandNames, H, baseTokens, loaded, options) ==
  IF brandNames = <<>> THEN S
  ELSE processBrand(S, ci, collectionName, brandNames,
                    brandTokensOf(H, baseTokens, loaded, Head(brandNames)),
                    H, baseTokens, loaded, options)

RECURSIVE processBrandCollections(_, _, _, _, _, _, _, _)
processBrandCollections(S, groups, brandNames, H, baseTokens, loaded, options, renamed) ==
  IF groups = <<>> THEN S
  ELSE LET group == Head(groups)
           existed == getVariableCollectionByName(S.figma, group.name) # 0
           got == getOrCreateCollection(S.figma, group.name)
           S1 == [S EXCEPT
                   !.figma = [got.figma EXCEPT !.collections[got.i] =
                                ensureModesInCollection(@, brandNames, renamed)],
                   !.result.collectionsCreated = IF existed THEN @ ELSE @ + 1]
           existing == existingVariableNames(S1.figma.collections[got.i])
           S2 == processBaseTokens(S1, got.i, group.tokens, options, existing)
           S3 == processBrands(S2, got.i, group.name, brandNames, H, baseTokens, loaded, options)
       IN processBrandCollections(S3, Tail(groups), brandNames, H, baseTokens, loaded, options, renamed)

transformMerged(F, base, loaded, brandStructure, options, renamed) ==
  IF base.h.e
  THEN [figma |-> F,
        result |-> [NewResult EXCEPT !.success = FALSE, !.errors = <<Note("transform", <<>>)>>]]
  ELSE finished(processBrandCollections([figma |-> F, result |-> NewResult],
                  groupByCollection(flattenTokens(Read(base.h, base.a), <<>>), options, <<>>),
                  brandNamesOf(brandStructure), base.h, base.a, loaded, options, renamed))

transformLoaded(F, l, brandStructure, options, renamed) ==
  transformMerged(F, mergeBaseAndGlobalTokens(l.h, l.files), l.files, brandStructure, options,
                  renamed)

transformMultiBrandTokensToFigma(F, pfiles, brandStructure, options, renamed) ==
  IF pfiles = <<>>
  THEN [figma |-> F, result |-> [NewResult EXCEPT !.warnings = <<Note("empty", <<>>)>>]]
  ELSE transformLoaded(F, loadProcessed(EmptyHeap, pfiles, <<>>), brandStructure, options,
                       renamed)

----------------------------------------------------------------------------
(* Pull from the repository.  The content of a file is its JSON tree and   *)
(* the set of defects of its text that keep JSON.parse from reading it.    *)

Content(defects, tree) == [defects |-> defects, tree |-> tree]
NoContent == Content({"empty"}, EmptyObj)

robustParseJSON(content) ==
  IF content.defects = {} THEN content.tree
  ELSE IF content.defects \subseteq {"trailingComma"} THEN content.tree
  ELSE IF content.defects \subseteq {"lineComment", "trailingComma"} THEN content.tree
  ELSE IF content.defects \subseteq {"blockComment", "trailingComma"} THEN content.tree
  ELSE IF content.defects = {"extraData"} THEN content.tree
  ELSE Thrown("SyntaxError")

NoError == <<>>

RECURSIVE categorizeTokenFiles(_, _)
categorizeTokenFiles(contents, brandStructure) ==
  IF contents = <<>> THEN <<>>
  ELSE LET file == Head(contents)
           rest == categorizeTokenFiles(Tail(contents), brandStructure)
           toks == robustParseJSON(file.content)
           OfFile(b) == InSeq(file.path, b.files)
           brandInfo == IndexOf(brandStructure.brands, OfFile)
           isBase == InSeq(file.path, brandStructure.baseFiles)
       IN IF file.error # NoError THEN rest
          ELSE IF IsThrown(toks) THEN rest
          ELSE IF Falsy(toks) \/ ~IsObj(toks) THEN rest
          ELSE <<[path |-> file.path, content |-> file.content, tokens |-> toks,
                  brand |-> IF ~isBase /\ brandInfo # 0 THEN brandStructure.brands[brandInfo].name
                            ELSE <<>>,
                  category |-> IF isBase THEN "base" ELSE IF brandInfo # 0 THEN "brand"
                               ELSE "global"]>> \o rest

isMultiBrand(brandStructure) == Len(brandStructure.brands) > 0

RECURSIVE assignAll(_, _)
assignAll(allTokens, pfiles) ==
  IF pfiles = <<>> THEN allTokens
  ELSE assignAll(Obj(Head(pfiles).tokens.v @@ allTokens.v), Tail(pfiles))

Failure(message) == [success |-> FALSE, message |-> message]
Success == [success |-> TRUE, message |-> "imported"]
NoResult == [success |-> FALSE, message |-> "none"]

transformResolved(F, resolvedGlobalTokens, cfg) ==
  IF IsThrown(resolvedGlobalTokens)
  THEN [figma |-> F,
        result |-> [NewResult EXCEPT !.success = FALSE, !.errors = <<Note("process", <<>>)>>]]
  ELSE transformTokensToFigma(F, resolvedGlobalTokens,
         [collectionName |-> cfg.targetCollection, targetMode |-> cfg.targetMode])

transformProcessed(F, pfiles, brandStructure, cfg, renamed) ==
  IF isMultiBrand(brandStructure) /\ cfg.modeStrategy # "target"
  THEN transformMultiBrandTokensToFigma(F, pfiles, brandStructure,
         [collectionName |-> cfg.targetCollection, targetMode |-> <<>>], renamed)
  ELSE transformResolved(F, resolveTokenReferences(assignAll(EmptyObj, pfiles), Undefined), cfg)

Early(F, message) ==
  [figma |-> F, structure |-> NoStructure, pfiles |-> <<>>, result |-> NewResult,
   warnings |-> <<>>, pulled |-> Failure(message)]

reported(S, brandStructure, pfiles) ==
  [figma |-> S.figma, structure |-> brandStructure, pfiles |-> pfiles,
   result |-> S.result, warnings |-> S.result.warnings,
   pulled |-> IF S.result.errors # <<>> THEN Failure("Sync completed with errors") ELSE Success]

pullProcessed(F, pfiles, brandStructure, cfg, renamed) ==
  IF pfiles = <<>>
  THEN [Early(F, "No valid token files found to process") EXCEPT !.structure = brandStructure]
  ELSE reported(transformProcessed(F, pfiles, brandStructure, cfg, renamed), brandStructure, pfiles)

pullClassified(F, contents, brandStructure, cfg, renamed) ==
  pullProcessed(F, categorizeTokenFiles(contents, brandStructure), brandStructure, cfg, renamed)

pullTokensFromGitHub(F, contents, cfg, pattern, renamed) ==
  LET paths == [i \in 1..Len(contents) |-> contents[i].path]
      Failed(f) == f.error # NoError
  IN IF paths = <<>> THEN Early(F, "No token files found")
     ELSE IF SelectSeq(contents, Failed) # <<>> THEN Early(F, "Failed to fetch files")
     ELSE pullClassified(F, contents, detectMultiBrandStructure(paths, pattern), cfg, renamed)

(* Export of the variables to token files.  The field order of an export  *)
(* result lists the keys of its tokens object in the order of insertion,   *)
(* the order in which Object.entries yields them.                          *)

getStyleDictionaryType(figmaType) ==
  CASE figmaType = "COLOR" -> "color"
    [] figmaType = "FLOAT" -> "dimension"
    [] figmaType = "STRING" -> "string"
    [] figmaType = "BOOLEAN" -> "boolean"
    [] OTHER -> "string"

rgbaToHex(rgba) ==
  CASE rgba = <<"#", "f00">> -> <<"#", "ff0000">>
    [] Len(rgba) = 2 /\ rgba[1] \in {"rgb", "rgba"} -> <<"#", "ff0000">>
    [] OTHER -> rgba

convertFigmaValue(value, type) ==
  IF type = "COLOR" /\ value.t = "rgba" THEN Str(rgbaToHex(value.v))
  ELSE IF type = "FLOAT" /\ value.t = "num" THEN value
  ELSE IF type = "BOOLEAN" /\ value.t = "bool" THEN value
  ELSE IF type = "STRING" /\ value.t = "str" THEN value
  ELSE String(value)

(* A run of white space in a name is one atom.                             *)
Whitespace == {" ", "  "}

getCollectionKey(collectionName) ==
  [i \in 1..Len(collectionName) |->
     IF collectionName[i] \in Whitespace THEN "-" ELSE toLowerAtom(collectionName[i])]

exportedToken(collection, variable) ==
  LET base == (kValue :> convertFigmaValue(variable.valuesByMode[collection.defaultModeId],
                                           variable.resolvedType))
              @@ (kType :> Str(<<getStyleDictionaryType(variable.resolvedType)>>))
  IN Obj(IF variable.description # <<>> THEN base @@ (kComment :> Str(variable.description))
         ELSE base)

RECURSIVE exportNext(_, _, _)
exportVariable(R, collection, variable, collectionTokens, set) ==
  IF IsThrown(set)
  THEN [result |-> [R EXCEPT !.errors = Append(@, Note("variable", variable.name))],
        tokens |-> collectionTokens]
  ELSE [result |-> [R EXCEPT !.variablesProcessed = @ + 1], tokens |-> set]

exportNext(done, collection, variables) ==
  IF variables = <<>> THEN done
  ELSE exportNext(exportVariable(done.result, collection, Head(variables), done.tokens,
                    setNestedValue(done.tokens,
                                   getCollectionKey(collection.name) \o <<"/">> \o Head(variables).name,
                                   exportedToken(collection, Head(variables)))),
                  collection, Tail(variables))

exportVariables(R, collection, variables, collectionTokens) ==
  exportNext([result |-> R, tokens |-> collectionTokens], collection, variables)

NewExport ==
  [success |-> TRUE, tokens |-> <<>>, order |-> <<>>, variablesProcessed |-> 0,
   collectionsProcessed |-> 0, errors |-> <<>>, warnings |-> <<>>]

tokensFile == <<"tokens", ".json">>

RECURSIVE exportCollections(_, _, _)
exportedCollection(R, done, key, organizeByCollection) ==
  LET fileName == IF organizeByCollection THEN key \o <<".json">> ELSE tokensFile
      before == IF fileName \in DOMAIN R.tokens THEN R.tokens[fileName].v ELSE <<>>
      stored == IF organizeByCollection THEN done.tokens ELSE Obj(done.tokens.v @@ before)
  IN [done.result EXCEPT !.tokens = (fileName :> stored) @@ @,
                         !.order = IF fileName \in DOMAIN R.tokens THEN @ ELSE Append(@, fileName),
                         !.collectionsProcessed = @ + 1]

exportCollection(R, collection, organizeByCollection) ==
  IF collection.variables = <<>>
  THEN [R EXCEPT !.warnings = Append(@, Note("empty", collection.name))]
  ELSE exportedCollection(R,
         exportVariables(R, collection, collection.variables,
                         Obj(getCollectionKey(collection.name) :> EmptyObj)),
         getCollectionKey(collection.name), organizeByCollection)

exportCollections(R, collections, organizeByCollection) ==
  IF collections = <<>> THEN R
  ELSE exportCollections(exportCollection(R, Head(collections), organizeByCollection),
                         Tail(collections), organizeByCollection)

finishedExport(R) == [R EXCEPT !.success = (R.errors = <<>>)]

transformFigmaToTokens(F, organizeByCollection) ==
  IF F.collections = <<>>
  THEN [NewExport EXCEPT !.warnings = <<Note("no collections", <<>>)>>]
  ELSE finishedExport(exportCollections(NewExport, F.collections, organizeByCollection))

RECURSIVE jsonValue(_)
jsonValue(x) ==
  IF IsObj(x) THEN Obj([k \in {j \in DOMAIN x.v : x.v[j].t # "undef"} |-> jsonValue(x.v[k])])
  ELSE x

formatTokensAsJSON(toks) == jsonValue(toks)

(* A pattern of tokenPaths is a string whose atoms are "/", names and the   *)
(* wildcard atoms; only a wildcard atom holds a '*'.                       *)
Wildcards == {"*", "**", "*.json"}

includesStar(s) == \E i \in 1..Len(s) : s[i] \in Wildcards

defaultPattern == <<"tokens", "/", "**", "/", "*.json">>

baseDirOf(firstPattern) ==
  LET parts == Split(firstPattern, "/")
      NoStar(part) == ~includesStar(part)
      nonWildcardParts == SelectSeq(parts, NoStar)
  IN IF ~HasSep(firstPattern, "/") THEN <<"tokens">>
     ELSE IF Len(nonWildcardParts) > 0 THEN Join(nonWildcardParts, "/")
     ELSE IF parts[1] = <<".">> THEN <<"tokens">> ELSE parts[1]

targetPath(tokenPaths, fileName) ==
  IF Len(tokenPaths) = 1 /\ ~includesStar(tokenPaths[1]) THEN tokenPaths[1]
  ELSE baseDirOf(IF tokenPaths # <<>> /\ tokenPaths[1] # <<>> THEN tokenPaths[1]
                 ELSE defaultPattern) \o <<"/">> \o fileName

pushTransformed(transformResult, tokenPaths) ==
  IF ~transformResult.success THEN [success |-> FALSE, files |-> <<>>]
  ELSE IF transformResult.variablesProcessed = 0 THEN [success |-> FALSE, files |-> <<>>]
  ELSE [success |-> TRUE,
        files |-> [i \in 1..Len(transformResult.order) |->
                     [path |-> targetPath(tokenPaths, transformResult.order[i]),
                      content |-> formatTokensAsJSON(
                                    transformResult.tokens[transformResult.order[i]])]]]

pushTokensToGitHub(F, cfg) == pushTransformed(transformFigmaToTokens(F, TRUE), cfg.tokenPaths)

(* Sync specification: the files of a repository are pulled into the       *)
(* variable store, and the store is then pushed back as token files.       *)

MaxPullFiles == 3

ColorLeaf(s) == Obj((kValue :> Str(s)) @@ (kType :> Str(W("color"))))
File(words, content, error) == [path |-> P(words), content |-> content, error |-> error]

ColorsFile ==
  File(<<"tokens", "colors">>,
       Content({}, TreeOf({<<(<<W("color"), W("primary")>>), ColorLeaf(<<"#", "ff0000">>)>>})), NoError)
AliasFile ==
  File(<<"tokens", "alias">>,
       Content({}, TreeOf({<<(<<W("alias"), W("link")>>),
                             ColorLeaf(<<"{", "color", ".", "primary", "}">>)>>})), NoError)
BaseFile ==
  File(<<"tokens", "base">>,
       Content({"lineComment", "trailingComma"},
               TreeOf({<<(<<W("color"), W("primary")>>), ColorLeaf(<<"#", "00ff00">>)>>})), NoError)
AcmeFile ==
  File(<<"tokens", "brands", "acme", "colors">>,
       Content({}, TreeOf({<<(<<W("color"), W("primary")>>), ColorLeaf(<<"#", "0000ff">>)>>})), NoError)
GlobexFile ==
  File(<<"tokens", "brands", "globex", "colors">>,
       Content({}, TreeOf({<<(<<W("color"), W("primary")>>),
                             Obj((kValue :> Num(16)) @@ (kType :> Str(W("number"))))>>})), NoError)
AccentFile ==
  File(<<"tokens", "accent">>,
       Content({"trailingComma"},
               TreeOf({ <<(<<W("accent"), W("bad")>>), LeafWith(Str(<<"hsl", "(0,100%,50%)">>))>>,
                        <<(<<W("accent"), W("good")>>), LeafWith(Str(<<"16", "px">>))>>,
                        <<(<<W("accent"), W("odd")>>),
                          Obj((kValue :> Str(W("abc"))) @@ (kType :> Str(W("dimension"))))>> })),
       NoError)
SecondaryFile ==
  File(<<"tokens", "secondary">>,
       Content({}, TreeOf({<<(<<W("color"), W("secondary")>>), ColorLeaf(<<"#", "0000ff">>)>>})), NoError)
BrokenFile ==
  File(<<"tokens", "broken">>, Content({"lineComment", "blockComment"}, EmptyObj), NoError)
MissingFile == File(<<"tokens", "missing">>, NoContent, <<"404">>)

FilePool ==
  {ColorsFile, AliasFile, BaseFile, AcmeFile, GlobexFile, AccentFile, SecondaryFile, BrokenFile,
   MissingFile}

Configs ==
  { [targetCollection |-> tc, targetMode |-> m[2], modeStrategy |-> m[1],
     tokenPaths |-> <<defaultPattern>>] :
      tc \in {<<>>, W("Tokens")}, m \in {<<"auto", <<>>>>, <<"target", W("Dark")>>} }

ExistingFigma ==
  [collections |->
     << [createVariableCollection(W("Color")) EXCEPT
           !.created = 1,
           !.variables = <<[id |-> 1, name |-> W("primary"), resolvedType |-> "FLOAT",
                            description |-> <<>>, valuesByMode |-> <<Num(1)>>]>>] >>]

DistinctFiles(q) == \A i, j \in 1..Len(q) : q[i].path = q[j].path => i = j

InitSync ==
  /\ fileContents \in {q \in SeqsUpTo(FilePool, MaxPullFiles) : DistinctFiles(q)}
  /\ config \in Configs
  /\ figma \in {EmptyFigma, ExistingFigma}
  /\ tokenFiles = [i \in 1..Len(fileContents) |-> fileContents[i].path]
  /\ brandFolderPattern = <<>>
  /\ structure = NoStructure
  /\ processed = <<>>
  /\ result = 0
  /\ allWarnings = <<>>
  /\ pullResult = NoResult
  /\ pushResult = [success |-> FALSE, files |-> <<>>]
  /\ pc = "start"
  /\ tokens = EmptyObj
  /\ CodecIdle
  /\ ResolveIdle
  /\ MergeIdle
  /\ DiffIdle
  /\ PluginIdle

PullTokensFromGitHub ==
  /\ pc = "start"
  /\ \E renamed \in BOOLEAN :
       \E r \in {pullTokensFromGitHub(figma, fileContents, config, brandFolderPattern, renamed)} :
          /\ figma' = r.figma
          /\ structure' = r.structure
          /\ processed' = r.pfiles
          /\ result' = r.result
          /\ allWarnings' = r.warnings
          /\ pullResult' = r.pulled
  /\ pc' = "pulled"
  /\ UNCHANGED <<tokens, codecVars, resolveVars, mergeVars, diffVars, tokenFiles,
                 brandFolderPattern, config, fileContents, pushResult, pluginVars>>

PushTokensToGitHub ==
  /\ pc = "pulled"
  /\ pushResult' = pushTokensToGitHub(figma, config)
  /\ pc' = "pushed"
  /\ UNCHANGED <<tokens, codecVars, resolveVars, mergeVars, diffVars, classifyVars, figma,
                 config, fileContents, processed, result, allWarnings, pullResult, pluginVars>>

NextSync == PullTokensFromGitHub \/ PushTokensToGitHub

SpecSync == InitSync /\ [][NextSync]_vars

(* Properties of the pull.  The tokens handed to transformTokensToFigma on  *)
(* the single path are those of the processed files, merged and resolved.  *)

SinglePath == ~(isMultiBrand(structure) /\ config.modeStrategy # "target")

ImportOptions == [collectionName |-> config.targetCollection, targetMode |-> config.targetMode]

ImportedTokens == resolveTokenReferences(assignAll(EmptyObj, processed), Undefined)

Imported == pc = "pulled" /\ processed # <<>> /\ SinglePath /\ ~IsThrown(ImportedTokens)

ColorText(value) == IF IsObj(value) /\ Has(value, kValue) THEN value.v[kValue] ELSE value

InvalidColor(token) ==
  /\ getFigmaVariableType(token.type, token.value) = "COLOR"
  /\ ColorText(token.value).t # "str" \/ IsNull(parseColor(ColorText(token.value).v))

InvalidNumber(token) ==
  /\ getFigmaVariableType(token.type, token.value) = "FLOAT"
  /\ token.value.t # "num"
  /\ ~(token.value.t = "str" /\ startsWith(token.value.v, Digits))

Unconvertible(token) == InvalidColor(token) \/ InvalidNumber(token)

VariablesNamed(F, collectionName, variableName) ==
  { v \in UNION { SetOf(F.collections[c].variables) :
                    c \in {i \in 1..Len(F.collections) : F.collections[i].name = collectionName} } :
      v.name = variableName }

Stored(F, token, options) ==
  LET c == getVariableCollectionByName(F, collectionNameOf(token, options))
      kind == getFigmaVariableType(token.type, token.value)
  IN /\ c # 0
     /\ \E v \in VariablesNamed(F, collectionNameOf(token, options), variableNameOf(token, options)) :
          /\ v.resolvedType = kind
          /\ v.valuesByMode[getModeId(F.collections[c], options.targetMode)]
               = convertTokenValue(token.value, kind)

(* C14: a token whose value cannot be converted to its inferred kind is    *)
(* skipped and named in the warnings, it is not an error and the result    *)
(* stays successful, and every other token of the batch has its variable   *)
(* with the converted value.                                               *)
C14_ConversionFailure ==
  Imported =>
    LET flatTokens == flattenTokens(ImportedTokens, <<>>)
    IN /\ \A i \in 1..Len(flatTokens) :
            IF Unconvertible(flatTokens[i])
            THEN /\ VariablesNamed(figma, collectionNameOf(flatTokens[i], ImportOptions),
                                   variableNameOf(flatTokens[i], ImportOptions)) = {}
                 /\ \E w \in SetOf(allWarnings) : w.on = flatTokens[i].path
                 /\ \A e \in SetOf(result.errors) : e.on # flatTokens[i].path
            ELSE Stored(figma, flatTokens[i], ImportOptions)
       /\ result.success
       /\ pullResult.success

Fetched == \A i \in 1..Len(fileContents) : fileContents[i].error = NoError

Unparseable(file) == file.error = NoError /\ IsThrown(robustParseJSON(file.content))

Usable(file) ==
  /\ file.error = NoError
  /\ ~IsThrown(robustParseJSON(file.content))
  /\ IsObj(robustParseJSON(file.content))

ProcessedPaths == {processed[i].path : i \in 1..Len(processed)}

(* C15: a file whose content no recovery attempt can parse is left out of  *)
(* the processed files, every file that parses is processed, and the       *)
(* skipped file is named in the warnings of the pull.                      *)
C15_ParseFailure ==
  (pc = "pulled" /\ Fetched) =>
    \A i \in 1..Len(fileContents) :
      /\ Usable(fileContents[i]) => fileContents[i].path \in ProcessedPaths
      /\ Unparseable(fileContents[i]) =>
           /\ fileContents[i].path \notin ProcessedPaths
           /\ \E w \in SetOf(allWarnings) : w.on = fileContents[i].path

ImportedSome ==
  /\ pullResult.message \in {"imported", "Sync completed with errors"}
  /\ \A i \in 1..Len(fileContents) :
       Usable(fileContents[i]) => fileContents[i].path \in ProcessedPaths

(* C16: when at least one file is fetched and parsed, the pull imports the *)
(* tokens of every such file whatever happened to the other files; it ends *)
(* without importing anything only when no file is usable.                 *)
C16_BatchPropagation ==
  pc = "pulled" =>
    IF \E i \in 1..Len(fileContents) : Usable(fileContents[i])
    THEN ImportedSome
    ELSE ~pullResult.success /\ processed = <<>>

(* Properties of the multi-brand import.                                   *)

MultiPath == isMultiBrand(structure) /\ config.modeStrategy # "target"

MultiOptions == [collectionName |-> config.targetCollection, targetMode |-> <<>>]

LoadedFiles == loadProcessed(EmptyHeap, processed, <<>>)

FoundationHeap == mergeBaseAndGlobalTokens(LoadedFiles.h, LoadedFiles.files)

FoundationTokens == flattenTokens(Read(FoundationHeap.h, FoundationHeap.a), <<>>)

BrandTokens(brandName) ==
  flattenTokens(brandTokensOf(FoundationHeap.h, FoundationHeap.a, LoadedFiles.files, brandName).tokens,
                <<>>)

ModeNames(collection) == {collection.modes[i].name : i \in 1..Len(collection.modes)}

ConvertedValue(token) ==
  convertTokenValue(token.value, getFigmaVariableType(token.type, token.value))

ValueInMode(F, token, modeId) ==
  LET c == getVariableCollectionByName(F, collectionNameOf(token, MultiOptions))
      v == getVariableByName(F.collections[c], variableNameOf(token, MultiOptions))
  IN F.collections[c].variables[v].valuesByMode[modeId]

HasVariable(F, token) ==
  LET c == getVariableCollectionByName(F, collectionNameOf(token, MultiOptions))
  IN c # 0 /\ getVariableByName(F.collections[c], variableNameOf(token, MultiOptions)) # 0

CollectionOf(F, token) ==
  F.collections[getVariableCollectionByName(F, collectionNameOf(token, MultiOptions))]

MultiImported ==
  /\ pc = "pulled"
  /\ processed # <<>>
  /\ MultiPath
  /\ result.errors = <<>>

(* C17: after a multi-brand import without errors, the collection of every *)
(* foundation token has a mode for each detected brand besides its default *)
(* mode, the token's variable holds the converted foundation value in the  *)
(* default mode, and in the mode of each brand it holds the converted      *)
(* value of the token in that brand's merged tree.                         *)
C17_ModesAfterImport ==
  MultiImported =>
    \A i \in 1..Len(FoundationTokens) :
      LET token == FoundationTokens[i]
          brandNames == brandNamesOf(structure)
      IN /\ HasVariable(figma, token)
         /\ SetOf(brandNames) \subseteq ModeNames(CollectionOf(figma, token))
         /\ Len(CollectionOf(figma, token).modes) = Len(brandNames) + 1
         /\ ValueInMode(figma, token, CollectionOf(figma, token).defaultModeId)
              = ConvertedValue(token)
         /\ \A b \in 1..Len(brandNames) :
              \A j \in 1..Len(BrandTokens(brandNames[b])) :
                BrandTokens(brandNames[b])[j].path = token.path =>
                  ValueInMode(figma, token, getModeId(CollectionOf(figma, token), brandNames[b]))
                    = ConvertedValue(BrandTokens(brandNames[b])[j])

(* Properties of a pull followed by a push.                                *)

RepositoryValues ==
  UNION { {flattenTokens(processed[i].tokens, <<>>)[j].value :
             j \in 1..Len(flattenTokens(processed[i].tokens, <<>>))} :
          i \in 1..Len(processed) }

PushedValues ==
  UNION { {flattenTokens(pushResult.files[f].content, <<>>)[j].value :
             j \in 1..Len(flattenTokens(pushResult.files[f].content, <<>>))} :
          f \in DOMAIN pushResult.files }

(* C18: after a successful pull followed by a successful push, every alias *)
(* reference "{path}" that is the value of a token of the repository files *)
(* is the value of a token of the pushed files.                            *)
C18_ReferencesPreserved ==
  (pc = "pushed" /\ pullResult.success /\ pushResult.success) =>
    \A value \in RepositoryValues : IsAlias(value) => value \in PushedValues

(* Properties of the resolution of references during a pull.               *)

WrittenTree ==
  IF MultiPath THEN Read(FoundationHeap.h, FoundationHeap.a) ELSE assignAll(EmptyObj, processed)

WrittenOptions == IF MultiPath THEN MultiOptions ELSE ImportOptions

AllStored(F, resolvedTokens, options) ==
  ~IsThrown(resolvedTokens) =>
    \A token \in SetOf(flattenTokens(resolvedTokens, <<>>)) :
      ~Unconvertible(token) => Stored(F, token, options)

(* C21: after a pull that processed files, the values in the store are     *)
(* those of the resolved tree: every convertible token of the merged tree  *)
(* after reference resolution (the foundation tree on the multi-brand      *)
(* path, the merged tree on the single path) has its variable with the     *)
(* converted resolved value in the default or target mode, so an alias     *)
(* that resolves is stored as the value it resolves to.                    *)
C21_ResolutionOrdering ==
  (pc = "pulled" /\ processed # <<>> /\ (MultiPath => ~FoundationHeap.h.e)) =>
    AllStored(figma, resolveTokenReferences(WrittenTree, Undefined), WrittenOptions)

(* Properties of the merge on the single path.                             *)

DefinedLater(path, i) ==
  \E j \in (i + 1)..Len(processed) :
    \E u \in SetOf(flattenTokens(processed[j].tokens, <<>>)) : u.path = path

Plain(token) == ~Unconvertible(token) /\ ~IsAlias(token.value)

(* C22: on the single path every leaf of every processed file reaches the  *)
(* store: its variable exists, and unless a later file defines a leaf with *)
(* the same full path the variable holds the converted value of the leaf,  *)
(* also when another file defines other leaves in the same top-level group.*)
C22_SinglePathMerge ==
  Imported =>
    \A i \in 1..Len(processed) :
      \A token \in SetOf(flattenTokens(processed[i].tokens, <<>>)) :
        Plain(token) =>
          /\ VariablesNamed(figma, collectionNameOf(token, ImportOptions),
                            variableNameOf(token, ImportOptions)) # {}
          /\ ~DefinedLater(token.path, i) => Stored(figma, token, ImportOptions)

----------------------------------------------------------------------------
(* Kind inference: getFigmaVariableType applied to a declared type and a   *)
(* raw value.                                                              *)

DeclaredTypes ==
  {Undefined, Str(<<>>)}
    \cup {Str(W(a)) : a \in colorTypes \cup floatTypes \cup stringTypes
                             \cup {"boolean", "COLOR", "Dimension", "LetterSpacing", "shadow"}}

RawValues ==
  {Bool(TRUE), Num(16), Null, EmptyObj}
    \cup {Str(s) : s \in {<<"#", "ff0000">>, <<"rgb", "(255,0,0)">>, <<"hsl", "(0,100%,50%)">>,
                          <<"16", "px">>, <<"1", "%">>, <<"16">>, <<"abc">>, <<"px">>,
                          <<"{", "color", ".", "primary", "}">>, <<>>}}

InitInfer ==
  /\ declaredType \in DeclaredTypes
  /\ rawValue \in RawValues
  /\ inferred = ""
  /\ pc = "start"
  /\ tokens = EmptyObj
  /\ CoreIdle
  /\ ImportIdle
  /\ CallIdle
  /\ MessageIdle
  /\ PrIdle

GetFigmaVariableType ==
  /\ pc = "start"
  /\ inferred' = getFigmaVariableType(declaredType, rawValue)
  /\ pc' = "inferred"
  /\ UNCHANGED <<tokens, codecVars, resolveVars, mergeVars, classifyVars, diffVars, importVars,
                 declaredType, rawValue, callVars, messageVars, prVars>>

NextInfer == GetFigmaVariableType

SpecInfer == InitInfer /\ [][NextInfer]_vars

(* The rule of the specification: the synonym table, matched without       *)
(* regard to case, then the shape of the raw value.                        *)

Matches(declared, table) ==
  /\ declared.t = "str"
  /\ Len(declared.v) = 1
  /\ \E entry \in table : toLowerAtom(entry) = toLowerAtom(declared.v[1])

ColorShaped(s) == Len(s) >= 1 /\ s[1] \in {"#", "rgb", "rgba", "hsl", "hsla"}

NumberWithUnit(s) == Len(s) = 2 /\ s[1] \in Digits /\ s[2] \in Units

KindOf(declared, raw) ==
  IF Matches(declared, colorTypes) THEN "COLOR"
  ELSE IF Matches(declared, floatTypes) THEN "FLOAT"
  ELSE IF Matches(declared, {"boolean"}) THEN "BOOLEAN"
  ELSE IF Matches(declared, stringTypes) THEN "STRING"
  ELSE IF raw.t = "bool" THEN "BOOLEAN"
  ELSE IF raw.t = "num" THEN "FLOAT"
  ELSE IF raw.t = "str" /\ ColorShaped(raw.v) THEN "COLOR"
  ELSE IF raw.t = "str" /\ NumberWithUnit(raw.v) THEN "FLOAT"
  ELSE "STRING"

(* C23: the kind returned for a declared type and a raw value is the kind  *)
(* of the rule: the declared type decides when it matches an entry of the  *)
(* synonym table without regard to case, and otherwise the shape of the    *)
(* raw value decides.                                                      *)
C23_KindInference == pc = "inferred" => inferred = KindOf(declaredType, rawValue)

----------------------------------------------------------------------------
(* Re-import: transformTokensToFigma runs twice with the same tokens and   *)
(* options on one variable store.                                          *)

MaxImportTokens == 3

ImportEntries ==
  { <<(<<W("color"), W("primary")>>), ColorLeaf(<<"#", "ff0000">>)>>,
    <<(<<W("color"), W("secondary")>>), ColorLeaf(<<"#", "0000ff">>)>>,
    <<(<<W("Color"), W("primary")>>), Obj((kValue :> Num(16)) @@ (kType :> Str(W("number"))))>>,
    <<(<<W("size"), W("small")>>), LeafWith(Str(<<"16", "px">>))>>,
    <<(<<W("accent"), W("bad")>>), LeafWith(Str(<<"hsl", "(0,100%,50%)">>))>>,
    <<(<<W("flag")>>), Obj((kValue :> Bool(TRUE)) @@ (kComment :> Str(W("note"))))>> }

ImportTrees == {TreeOf(E) : E \in SubsetsUpTo(ImportEntries, MaxImportTokens)}

TransformOptions ==
  [collectionName : {<<>>, W("Tokens")}, targetMode : {<<>>, W("Dark")}]

DarkFigma ==
  [collections |-> <<addMode(createVariableCollection(W("Tokens")), W("Dark"))>>]

InitReimport ==
  /\ tokens \in ImportTrees
  /\ call \in TransformOptions
  /\ figma \in {EmptyFigma, ExistingFigma, DarkFigma}
  /\ previous = figma
  /\ result = NewResult
  /\ config = [targetCollection |-> <<>>, targetMode |-> <<>>, modeStrategy |-> "auto"]
  /\ fileContents = <<>>
  /\ processed = <<>>
  /\ allWarnings = <<>>
  /\ pullResult = NoResult
  /\ pushResult = [success |-> FALSE, files |-> <<>>]
  /\ pc = "start"
  /\ CoreIdle
  /\ InferIdle
  /\ MessageIdle
  /\ PrIdle

TransformTokensToFigma ==
  /\ pc \in {"start", "imported"}
  /\ \E r \in {transformTokensToFigma(figma, tokens, call)} :
       /\ figma' = r.figma
       /\ result' = r.result
  /\ previous' = figma
  /\ pc' = IF pc = "start" THEN "imported" ELSE "reimported"
  /\ UNCHANGED <<tokens, call, codecVars, resolveVars, mergeVars, classifyVars, diffVars,
                 config, fileContents, processed, allWarnings, pullResult, pushResult,
                 inferVars, messageVars, prVars>>

NextReimport == TransformTokensToFigma

SpecReimport == InitReimport /\ [][NextReimport]_vars

Converted(token) == ~IsThrown(ConvertedValue(token)) /\ ~IsNull(ConvertedValue(token))

ConvertedTokens(toks) ==
  {i \in 1..Len(flattenTokens(toks, <<>>)) : Converted(flattenTokens(toks, <<>>)[i])}

(* C24: the second of two runs of transformTokensToFigma with the same     *)
(* tokens and options creates no collection and no variable, counts every  *)
(* converted token as updated, and leaves the variable store as the first  *)
(* run left it.                                                            *)
C24_ReimportCreatesNothing ==
  pc = "reimported" =>
    /\ result.collectionsCreated = 0
    /\ result.variablesCreated = 0
    /\ result.variablesUpdated = Cardinality(ConvertedTokens(tokens))
    /\ figma = previous

----------------------------------------------------------------------------
(* Push: the collections of a variable store are exported and mapped to    *)
(* the target files of a tokenPaths configuration.                         *)

MaxCollections == 2

CollectionNames ==
  {W("Color"), W("color"), W("Size"), <<"my", " ", "size">>, <<"my", "-", "size">>}

WithVariable(collection) ==
  setVariable(collection, W("primary"), "FLOAT", Num(16), Undefined)

CollectionPool ==
  {createVariableCollection(n) : n \in CollectionNames}
    \cup {WithVariable(createVariableCollection(n)) : n \in CollectionNames}

DistinctCollections(q) == \A i, j \in 1..Len(q) : q[i].name = q[j].name => i = j

PushStores ==
  {[collections |-> q] :
     q \in {x \in SeqsUpTo(CollectionPool, MaxCollections) : DistinctCollections(x)}}

TokenPathsPool ==
  { <<>>,
    <<(<<"tokens", "/", "tokens", ".json">>)>>,
    <<defaultPattern>>,
    <<(<<"**", "/", "*.json">>)>>,
    <<(<<"*.json">>)>>,
    <<(<<"design", "/", "a", ".json">>), (<<"design", "/", "b", ".json">>)>> }

InitPush ==
  /\ figma \in PushStores
  /\ config \in {[targetCollection |-> <<>>, targetMode |-> <<>>, modeStrategy |-> "auto",
                  tokenPaths |-> tp] : tp \in TokenPathsPool}
  /\ fileContents = <<>>
  /\ processed = <<>>
  /\ result = NewResult
  /\ allWarnings = <<>>
  /\ pullResult = Success
  /\ pushResult = [success |-> FALSE, files |-> <<>>]
  /\ pc = "pulled"
  /\ tokens = EmptyObj
  /\ CoreIdle
  /\ PluginIdle

NextPush == PushTokensToGitHub

SpecPush == InitPush /\ [][NextPush]_vars

Exported == {i \in 1..Len(figma.collections) : figma.collections[i].variables # <<>>}

(* C25: in the list of files of a successful push every collection that    *)
(* has variables has a file of its own: the list has one file for each     *)
(* such collection and no two files of the list have the same target path. *)
C25_SeparateFiles ==
  (pc = "pushed" /\ pushResult.success) =>
    /\ Len(pushResult.files) = Cardinality(Exported)
    /\ \A i, j \in 1..Len(pushResult.files) :
         pushResult.files[i].path = pushResult.files[j].path => i = j

----------------------------------------------------------------------------
(* Mode write: one call of setVariableForMode on a collection with modes.  *)

ModeCollection == addMode(createVariableCollection(W("Color")), W("acme"))

WithPrimary(collection) ==
  setVariableForMode(setVariable(collection, W("primary"), "FLOAT", Num(1), Undefined),
                     W("primary"), "FLOAT", Num(16), W("acme"), Undefined)

WithSecondary(collection) ==
  setVariableForMode(setVariable(collection, W("secondary"), "COLOR", Rgba(<<"#", "ff0000">>),
                                 Str(W("note"))),
                     W("secondary"), "COLOR", Rgba(<<"#", "0000ff">>), W("acme"), Undefined)

ModeStores ==
  {[collections |-> <<c>>] :
     c \in {ModeCollection, WithPrimary(ModeCollection), WithSecondary(WithPrimary(ModeCollection))}}

ModeCalls ==
  [name : {W("primary"), W("secondary"), W("other")},
   type : {"FLOAT", "COLOR"},
   modeName : {<<>>, W("acme"), W("Mode 1"), W("Dark")},
   description : {Undefined, Str(W("text"))}]

ValueOfType(type) == IF type = "FLOAT" THEN Num(0) ELSE Rgba(<<"#", "00ff00">>)

InitMode ==
  /\ figma \in ModeStores
  /\ previous = figma
  /\ call \in ModeCalls
  /\ config = [targetCollection |-> <<>>, targetMode |-> <<>>, modeStrategy |-> "auto"]
  /\ fileContents = <<>>
  /\ processed = <<>>
  /\ result = 0
  /\ allWarnings = <<>>
  /\ pullResult = NoResult
  /\ pushResult = [success |-> FALSE, files |-> <<>>]
  /\ pc = "start"
  /\ tokens = EmptyObj
  /\ CoreIdle
  /\ InferIdle
  /\ MessageIdle
  /\ PrIdle

SetVariableForMode ==
  /\ pc = "start"
  /\ figma' = [figma EXCEPT !.collections[1] =
                 setVariableForMode(@, call.name, call.type, ValueOfType(call.type),
                                    call.modeName, call.description)]
  /\ previous' = figma
  /\ pc' = "set"
  /\ UNCHANGED <<tokens, call, codecVars, resolveVars, mergeVars, classifyVars, diffVars,
                 config, fileContents, processed, result, allWarnings, pullResult, pushResult,
                 inferVars, messageVars, prVars>>

NextMode == SetVariableForMode

SpecMode == InitMode /\ [][NextMode]_vars

(* The modes the call names: the default mode when no mode name is given,  *)
(* else the modes of that name.                                            *)
NamedModes(collection, modeName) ==
  IF modeName = <<>> THEN {collection.defaultModeId}
  ELSE {collection.modes[i].modeId : i \in {j \in 1..Len(collection.modes) :
                                              collection.modes[j].name = modeName}}

ValuesOf(collection, name) ==
  {v.valuesByMode : v \in {w \in SetOf(collection.variables) : w.name = name}}

(* C26: after setVariableForMode(collection, name, type, value, modeName)  *)
(* every variable of another name is as it was, and the variable name      *)
(* holds in every mode other than the mode called modeName the value it    *)
(* held before the call.                                                   *)
C26_ModeWriteFrame ==
  pc = "set" =>
    LET before == previous.collections[1]
        after == figma.collections[1]
    IN /\ \A v \in SetOf(before.variables) : v.name # call.name => v \in SetOf(after.variables)
       /\ \A old \in ValuesOf(before, call.name) :
            \E new \in ValuesOf(after, call.name) :
              \A m \in 1..Len(before.modes) :
                m \notin NamedModes(before, call.modeName) => new[m] = old[m]

----------------------------------------------------------------------------
(* Plugin messages: the handlers of figma.ui.onmessage run step by step,   *)
(* one step per await, against the client storage and the UI state.        *)

MaxMessages == 2

NoSettings == [github |-> "none", lastSync |-> "none"]

loadSettings(store, throws) == IF throws THEN NoSettings ELSE store

saveSettings(store, settings, throws) == IF throws THEN store ELSE settings

Message(type, direction, success, settings, handler) ==
  [type |-> type, direction |-> direction, success |-> success, settings |-> settings,
   handler |-> handler]

sendToUI(queue, message) == Append(queue, message)

syncStarted(queue, direction, handler) ==
  sendToUI(queue, Message("SYNC_STARTED", direction, FALSE, NoSettings, handler))

syncComplete(queue, success, handler) ==
  sendToUI(queue, Message("SYNC_COMPLETE", "none", success, NoSettings, handler))

caught_silent(queue, handler) == queue

caught(queue, handler) == syncComplete(queue, FALSE, handler)

updatedSettings(currentSettings, direction) == [currentSettings EXCEPT !.lastSync = direction]

handleMessage(state, message) ==
  CASE message.type = "SETTINGS_LOADED" -> [state EXCEPT !.settings = message.settings]
    [] message.type = "SYNC_STARTED" -> [state EXCEPT !.isSyncing = TRUE]
    [] message.type = "SYNC_COMPLETE" ->
         IF message.success
         THEN [state EXCEPT !.isSyncing = FALSE, !.settings.lastSync = "pull"]
         ELSE [state EXCEPT !.isSyncing = FALSE]
    [] OTHER -> state

InitMessages ==
  /\ storage \in {NoSettings, [github |-> "old", lastSync |-> "none"]}
  /\ sync = <<>>
  /\ save = <<>>
  /\ posted = <<>>
  /\ ui = [isSyncing |-> FALSE, settings |-> NoSettings, handled |-> 0]
  /\ pc = "start"
  /\ tokens = EmptyObj
  /\ CoreIdle
  /\ ImportIdle
  /\ InferIdle
  /\ CallIdle
  /\ PrIdle

messageFrame == <<pc, tokens, codecVars, resolveVars, mergeVars, classifyVars, diffVars, importVars,
                  inferVars, callVars, prVars>>

(* INIT: load the settings and post them. *)
HandleInit ==
  /\ \A i \in 1..Len(posted) : posted[i].type # "SETTINGS_LOADED"
  /\ \E throws \in BOOLEAN :
       posted' = sendToUI(posted, Message("SETTINGS_LOADED", "none", FALSE,
                                          loadSettings(storage, throws), 0))
  /\ UNCHANGED <<storage, sync, save, ui, messageFrame>>

(* ConfigPanel saves a new github configuration; the plugin receives       *)
(* SAVE_SETTINGS and calls saveSettings.                                   *)
SaveSettingsMessage ==
  /\ Len(sync) + Len(save) < MaxMessages
  /\ ui' = [ui EXCEPT !.settings.github = "new"]
  /\ save' = Append(save, [pc |-> "saving", settings |-> ui'.settings, success |-> FALSE])
  /\ UNCHANGED <<storage, sync, posted, messageFrame>>

SettingsSaved ==
  \E i \in 1..Len(save) : \E throws \in BOOLEAN :
    /\ save[i].pc = "saving"
    /\ storage' = saveSettings(storage, save[i].settings, throws)
    /\ save' = [save EXCEPT ![i].pc = "done", ![i].success = ~throws]
    /\ posted' = sendToUI(posted, Message("SETTINGS_SAVED", "none", ~throws, NoSettings, 0))
    /\ UNCHANGED <<sync, ui, messageFrame>>

(* SyncPanel sends a sync message while its buttons are enabled; the       *)
(* plugin posts SYNC_STARTED and awaits the sync.                          *)
StartSync(direction) ==
  /\ Len(sync) + Len(save) < MaxMessages
  /\ ui.settings.github # "none"
  /\ ~ui.isSyncing
  /\ sync' = Append(sync, [pc |-> "syncing", direction |-> direction, outcome |-> "none",
                           currentSettings |-> NoSettings])
  /\ posted' = syncStarted(posted, direction, Len(sync) + 1)
  /\ UNCHANGED <<storage, save, ui, messageFrame>>

PullFromGitHub == StartSync("pull")

PushToGitHub == StartSync("push")

(* The awaited pull or push settles: success, failure, or a thrown error.  *)
SyncSettles ==
  \E i \in 1..Len(sync) : \E outcome \in {"success", "failure", "thrown"} :
    /\ sync[i].pc = "syncing"
    /\ IF outcome = "success"
       THEN /\ sync' = [sync EXCEPT ![i].pc = "loading", ![i].outcome = outcome]
            /\ posted' = posted
       ELSE /\ sync' = [sync EXCEPT ![i].pc = "done", ![i].outcome = outcome]
            /\ posted' = IF outcome = "thrown" THEN caught(posted, i)
                         ELSE syncComplete(posted, FALSE, i)
    /\ UNCHANGED <<storage, save, ui, messageFrame>>

SettingsLoaded ==
  \E i \in 1..Len(sync) : \E throws \in BOOLEAN :
    /\ sync[i].pc = "loading"
    /\ sync' = [sync EXCEPT ![i].pc = "saving",
                            ![i].currentSettings = loadSettings(storage, throws)]
    /\ UNCHANGED <<storage, save, posted, ui, messageFrame>>

LastSyncSaved ==
  \E i \in 1..Len(sync) : \E throws \in BOOLEAN :
    /\ sync[i].pc = "saving"
    /\ storage' = saveSettings(storage,
                               updatedSettings(sync[i].currentSettings, sync[i].direction),
                               throws)
    /\ sync' = [sync EXCEPT ![i].pc = "done", ![i].currentSettings = NoSettings]
    /\ posted' = syncComplete(posted, TRUE, i)
    /\ UNCHANGED <<save, ui, messageFrame>>

HandleMessage ==
  /\ ui.handled < Len(posted)
  /\ ui' = [handleMessage(ui, posted[ui.handled + 1]) EXCEPT !.handled = @ + 1]
  /\ UNCHANGED <<storage, sync, save, posted, messageFrame>>

NextMessages ==
  \/ HandleInit
  \/ SaveSettingsMessage
  \/ SettingsSaved
  \/ PullFromGitHub
  \/ PushToGitHub
  \/ SyncSettles
  \/ SettingsLoaded
  \/ LastSyncSaved
  \/ HandleMessage

SpecMessages == InitMessages /\ [][NextMessages]_vars

(* The sync protocol alone: INIT, the sync handlers and the UI.  Every      *)
(* awaited promise settles and the UI handles every posted message.        *)
NextProtocol ==
  \/ HandleInit
  \/ PullFromGitHub
  \/ PushToGitHub
  \/ SyncSettles
  \/ SettingsLoaded
  \/ LastSyncSaved
  \/ HandleMessage

SpecProtocol ==
  /\ InitMessages
  /\ [][NextProtocol]_vars
  /\ WF_vars(HandleInit)
  /\ WF_vars(SyncSettles)
  /\ WF_vars(SettingsLoaded)
  /\ WF_vars(LastSyncSaved)
  /\ WF_vars(HandleMessage)

Posts(type, handler) ==
  {k \in 1..Len(posted) : posted[k].type = type /\ posted[k].handler = handler}

OneStartedOneComplete ==
  \A i \in 1..Len(sync) :
    /\ Cardinality(Posts("SYNC_STARTED", i)) = 1
    /\ Cardinality(Posts("SYNC_COMPLETE", i)) = IF sync[i].pc = "done" THEN 1 ELSE 0
    /\ \A s \in Posts("SYNC_STARTED", i) : \A c \in Posts("SYNC_COMPLETE", i) : s < c

(* C27: every handled PULL_FROM_GITHUB or PUSH_TO_GITHUB posts exactly one *)
(* SYNC_STARTED and, later, exactly one SYNC_COMPLETE, whatever the sync   *)
(* or the settings step raises; every handler reaches its end and the      *)
(* UI's isSyncing flag, once set, is reset to false.                       *)
C27_SyncProtocol ==
  /\ []OneStartedOneComplete
  /\ (\E i \in 1..Len(sync) : sync[i].pc # "done") ~>
       (\A i \in 1..Len(sync) : sync[i].pc = "done")
  /\ ui.isSyncing ~> ~ui.isSyncing

C27_Witness ==
  /\ Len(sync) >= 1
  /\ sync[1].outcome = "thrown"
  /\ \E k \in 1..ui.handled : posted[k].type = "SYNC_COMPLETE" /\ posted[k].handler = 1
  /\ ~ui.isSyncing

(* C28: once a SAVE_SETTINGS handler has stored its settings, the stored   *)
(* settings keep the github configuration it wrote, also when a sync       *)
(* handler records lastSync from a copy it loaded earlier.                 *)
C28_NoLostSettingsUpdate ==
  \A i \in 1..Len(save) :
    (save[i].pc = "done" /\ save[i].success) => storage.github = save[i].settings.github

(* C29: after the UI handled a successful SYNC_COMPLETE its lastSync has   *)
(* the direction of the sync that completed, the one the plugin recorded.  *)
C29_LastSyncDirection ==
  \A k \in 1..Len(posted) :
    (k = ui.handled /\ posted[k].type = "SYNC_COMPLETE" /\ posted[k].success) =>
      ui.settings.lastSync = sync[posted[k].handler].direction

----------------------------------------------------------------------------
(* createPullRequest, one step per request to GitHub; every request may    *)
(* fail.  The repository keeps what the requests created, in order.        *)

MaxPrFiles == 2

PrPaths == {"tokens/color.json", "tokens/size.json"}

PrOptions ==
  [baseBranch : {"main"},
   files : SeqsUpTo([path : PrPaths, content : {"{}"}], MaxPrFiles)]

newBranchName == "figma-tokens-1"

BaseRepository ==
  {[head |-> "sha1", paths |-> existing, branches |-> <<>>, writes |-> <<>>, pulls |-> <<>>] :
     existing \in SUBSET PrPaths}

getRef(repository, ref) == repository.head

createBranch(repository, branchName, fromSha) ==
  [repository EXCEPT !.branches = Append(@, [name |-> branchName, sha |-> fromSha])]

getFileSha(repository, path, ok) == IF ok /\ path \in repository.paths THEN path ELSE ""

updateFile_base(repository, request, options) ==
  [repository EXCEPT !.writes = Append(@, [path |-> request.path, sha |-> request.sha,
                                           branch |-> options.baseBranch])]

updateFile(repository, request, options) ==
  [repository EXCEPT !.writes = Append(@, [path |-> request.path, sha |-> request.sha,
                                           branch |-> request.branch])]

createPull(repository, head, base) ==
  [repository EXCEPT !.pulls = Append(@, [head |-> head, base |-> base])]

Failed(state) == [state EXCEPT !.pc = "done", !.success = FALSE]

InitPullRequest ==
  /\ repo \in BaseRepository
  /\ pr \in {[pc |-> "start", options |-> o, i |-> 1, baseSha |-> "", fileSha |-> "",
              success |-> FALSE] : o \in PrOptions}
  /\ pc = "start"
  /\ tokens = EmptyObj
  /\ CoreIdle
  /\ ImportIdle
  /\ InferIdle
  /\ CallIdle
  /\ MessageIdle

prFrame == <<pc, tokens, codecVars, resolveVars, mergeVars, classifyVars, diffVars,
             importVars, inferVars, callVars, messageVars>>

GetRef ==
  /\ pr.pc = "start"
  /\ \E ok \in BOOLEAN :
       pr' = IF ok THEN [pr EXCEPT !.pc = "ref", !.baseSha = getRef(repo, pr.options.baseBranch)]
             ELSE Failed(pr)
  /\ UNCHANGED <<repo, prFrame>>

CreateBranch ==
  /\ pr.pc = "ref"
  /\ \E ok \in BOOLEAN :
       IF ok
       THEN /\ repo' = createBranch(repo, newBranchName, pr.baseSha)
            /\ pr' = [pr EXCEPT !.pc = "files"]
       ELSE /\ repo' = repo
            /\ pr' = Failed(pr)
  /\ UNCHANGED prFrame

GetFileSha ==
  /\ pr.pc = "files"
  /\ pr.i <= Len(pr.options.files)
  /\ \E ok \in BOOLEAN :
       pr' = [pr EXCEPT !.pc = "update",
                        !.fileSha = getFileSha(repo, pr.options.files[pr.i].path, ok)]
  /\ UNCHANGED <<repo, prFrame>>

UpdateFile ==
  /\ pr.pc = "update"
  /\ \E ok \in BOOLEAN :
       IF ok
       THEN /\ repo' = updateFile(repo, [path |-> pr.options.files[pr.i].path,
                                         sha |-> pr.fileSha, branch |-> newBranchName],
                                  pr.options)
            /\ pr' = [pr EXCEPT !.pc = "files", !.i = @ + 1]
       ELSE /\ repo' = repo
            /\ pr' = Failed(pr)
  /\ UNCHANGED prFrame

OpenPullRequest ==
  /\ pr.pc = "files"
  /\ pr.i > Len(pr.options.files)
  /\ \E ok \in BOOLEAN :
       IF ok
       THEN /\ repo' = createPull(repo, newBranchName, pr.options.baseBranch)
            /\ pr' = [pr EXCEPT !.pc = "done", !.success = TRUE]
       ELSE /\ repo' = repo
            /\ pr' = Failed(pr)
  /\ UNCHANGED prFrame

NextPullRequest == GetRef \/ CreateBranch \/ GetFileSha \/ UpdateFile \/ OpenPullRequest

SpecPullRequest == InitPullRequest /\ [][NextPullRequest]_vars

BranchCreated == \E b \in 1..Len(repo.branches) :
                   repo.branches[b] = [name |-> newBranchName, sha |-> repo.head]

AllWritten ==
  /\ Len(repo.writes) = Len(pr.options.files)
  /\ \A k \in 1..Len(repo.writes) :
       /\ repo.writes[k].path = pr.options.files[k].path
       /\ repo.writes[k].branch = newBranchName

(* C30: a pull request exists only when the new branch was created from    *)
(* the head of the base branch and every file of options.files was written *)
(* to the new branch; a call that ends without both has opened no pull     *)
(* request and returns success = false; no write targets the base branch.  *)
C30_PullRequestOrdering ==
  /\ repo.pulls # <<>> =>
       /\ BranchCreated
       /\ AllWritten
       /\ repo.pulls = <<[head |-> newBranchName, base |-> pr.options.baseBranch]>>
  /\ (pr.pc = "done" /\ ~(BranchCreated /\ AllWritten)) =>
       (repo.pulls = <<>> /\ ~pr.success)
  /\ (pr.pc = "done" /\ pr.success) => repo.pulls # <<>>
  /\ \A k \in 1..Len(repo.writes) : repo.writes[k].branch # pr.options.baseBranch

C30_Witness ==
  /\ pr.pc = "done"
  /\ pr.success
  /\ Len(pr.options.files) = MaxPrFiles
  /\ repo.pulls # <<>>

====
